---- MODULE Spec2Model ----
(***************************************************************************)
(* Verification model of the Mirage synthesizer engine (yedidiaSch/Mirage). *)
(*                                                                         *)
(* Subsystems modelled, each with its own specification:                   *)
(*   SpecRing      StereoSampleRingBuffer, whole calls (no concurrency)    *)
(*   SpecRingConc  StereoSampleRingBuffer, one producer and one consumer   *)
(*                 interleaved at single loads and stores                  *)
(*   Spec          AudioSystem (the engine), whole calls on one thread     *)
(*   SpecThreads   the audio callback, the UI thread and the MIDI thread   *)
(*                 entering and leaving AudioSystem calls                  *)
(*   SpecVoice     AudioSystem: notes, samples and the envelope            *)
(*   SpecChain     AudioSystem: the effect chain built, played, emptied    *)
(*   SpecFilter    AudioSystem: the calls that decide low_pass_active      *)
(*   SpecMidi      AudioSystemAdapter: MIDI events translated into calls   *)
(*                                                                         *)
(* Numbers.  Frequencies are integers in units of 1/1024 Hz (FreqPerHz);   *)
(* every such value below 16384 Hz is a float32, so the tolerance test     *)
(* |a - b| < 1e-3 of the code is exact on this grid.  NaN is the value     *)
(* NaN.  Phases are integers in units of 1/PhaseSteps of a cycle.          *)
(* Random draws of the code are choices over two values of their range.    *)
(***************************************************************************)
EXTENDS Integers, Sequences, FiniteSets, TLC

VARIABLES
    \* ---- StereoSampleRingBuffer (StereoSampleRingBuffer.h:94-98)
    m_capacityFrames,      \* const std::size_t
    m_buffer,              \* std::vector<float>, index 0 .. 2*capacity-1
    m_writeIndex,          \* std::atomic<std::size_t>
    m_totalFramesWritten,  \* std::atomic<std::size_t>
    \* ---- callers of the ring buffer and observation of its results
    pushed,                \* every frame handed to push so far, in order
    dest,                  \* the consumer's destination buffer (interleaved)
    copied,                \* return value of the last copyLatestInterleaved
    ringLast,              \* the last ring-buffer call: [op, maxFrames, hasDest]
    \* ---- producer thread inside push (locals and position)
    p_pc,                  \* "idle", "loaded", "wroteL", "wroteR", "stored"
    p_frameIndex,          \* local frameIndex of push
    p_frame,               \* the arguments (left, right) of the running push
    p_counted,             \* the running push is already counted in c_overlap
    \* ---- consumer thread inside copyLatestInterleaved
    c_pc,                  \* "idle", "avail", "loadIndex", "copyL", "copyR"
    c_maxFrames,           \* argument maxFrames
    c_framesToCopy,        \* local framesToCopy
    c_startFrame,          \* local startFrame
    c_i,                   \* loop counter i
    c_snap,                \* pushes reflected in the write index it loaded
    c_overlap,             \* pushes that wrote a sample while it copied
    \* ---- AudioSystem (audioSystem.h:150-183)
    m_frequency,           \* current note frequency
    m_primaryPhase,        \* phase of the primary oscillator
    m_secondaryPhase,      \* phase of the secondary oscillator
    m_noteOn,              \* a note is currently playing
    m_effects,             \* std::vector<std::shared_ptr<IEffect>>: handles
    m_primaryWaveform,     \* "square", "sine", "saw", "triangle"
    m_secondaryWaveform,
    m_envelope,            \* the ADSREnvelope object
    m_activeNotes,         \* std::vector<ActiveNote>
    m_lfoPhase,
    m_lfoRateHz,
    m_lfoAmountCents,
    m_noteJitterAmountCents,
    m_noteDetuneCents,
    m_waveformTap,         \* a tap ring buffer is attached
    m_secondaryEnabled,
    m_secondaryMix,
    m_secondaryDetuneCents,
    m_secondaryOctaveOffset,
    m_pitchBendCents,
    m_lowPassActive,
    m_lastLowPassCutoff,
    heap,                  \* the effect objects the handles point to
    \* ---- observation of the engine's calls
    last,                  \* the last engine call: [op, f, had, hit, pair]
    out,                   \* the stereo sample the last getNextSample returned
    calls,                 \* AudioSystem calls made so far
    run,                   \* getNextSample calls since note_on or the envelope
                           \* object last changed
    added,                 \* arguments of addEffect since the chain was last emptied
    events,                \* the MidiEvents given to AudioSystemAdapter::update so far
    \* ---- audio thread inside getNextSample (AudioDevice::audioCallback)
    a_pc,                  \* "idle", "applyEffects"
    a_i,                   \* position of the range-for of applyEffects
    a_sample,              \* local stereoSample
    a_raced,               \* m_effects was modified under the running loop
    \* ---- UI thread inside an AudioSystem call (AudioSystemWrapper)
    u_pc,                  \* "idle" or the call it is inside
    u_arg,                 \* the argument of the call
    u_raced,               \* another note call ran while this one did
    \* ---- MIDI thread inside an AudioSystem call (AudioSystemAdapter::update)
    k_pc,
    k_arg,
    k_raced,
    \* ---- AudioSystemWrapper (AudioSystemWrapper.h:70-71) and AudioService
    m_activeFrequencies,   \* std::vector<float> of the wrapper
    m_currentFrequency,    \* float of the wrapper
    activeFrequencies,     \* Set<number> of AudioService (AudioService.ts)
    \* ---- one DelayEffect on its own (DelayEffect.h:50-57) and its caller
    delayEffect,           \* the object: a record of its members
    echo,                  \* the last call on it: [op, input, out, delayed, pulses, threw, before]
    \* ---- one LowPassEffect on its own (LowPassEffect.h:40-58) and its caller
    lowPassEffect,         \* the object: a record of its members
    heard,                 \* the last call on it: [op, requested, input, out, calls]
    \* ---- one QueueThread (QueueThread.cpp), its worker and its owner
    taskQueue,             \* std::queue<std::function<void()>>: records [id, throws]
    m_running,             \* ThreadBase::m_running
    w_pc,                  \* where the worker is in QueueThread::thread()
    w_task,                \* the task the worker holds, [id |-> 0] when none
    o_pc,                  \* where the owning thread is: in put, in the destructor
    puts,                  \* every put so far, in order: records [id, kind]
    ran,                   \* ids of the tasks called, in the order of the calls
    finished,              \* ids of the tasks whose call has ended
    caught,                \* ids of the tasks whose exception a catch clause took
    \* ---- one ThreadBase (threadBase.cpp), its workers and the thread that
    \* ---- calls start() and stop(); m_running above is its flag
    m_thread,              \* std::thread m_thread: the worker it names, 0 when not joinable
    workers,               \* worker id -> where that thread is in thread()
    s_pc,                  \* where the calling thread is in stop()
    s_last,                \* the last call that returned: [op, launched, threw]
    \* ---- one Subject (subject.cpp), its observers and the notifying threads
    observers,             \* std::vector<IObserver*>; 0 is nullptr
    notifying,             \* thread -> its notify call: [i, params, got]
    observed,              \* the last attach or detach: [op, observer, before, attached]
    \* ---- AudioService (AudioService.ts) beyond its set of frequencies
    isInitialized,         \* private isInitialized: boolean
    audioSystem,           \* the native instance it holds, 0 for null
    instances,             \* native instances constructed so far
    serviceLast            \* the last call: [op, threw, native, result, before]

ringVars == <<m_capacityFrames, m_buffer, m_writeIndex, m_totalFramesWritten,
              pushed, dest, copied, ringLast>>

concVars == <<p_pc, p_frameIndex, p_frame, p_counted,
              c_pc, c_maxFrames, c_framesToCopy, c_startFrame, c_i, c_snap, c_overlap>>

noteVars == <<m_activeNotes, m_noteOn, m_frequency, m_noteDetuneCents>>

oscVars == <<m_primaryPhase, m_secondaryPhase, m_lfoPhase>>

paramVars == <<m_primaryWaveform, m_secondaryWaveform, m_lfoRateHz, m_lfoAmountCents,
               m_noteJitterAmountCents, m_secondaryEnabled, m_secondaryMix,
               m_secondaryDetuneCents, m_secondaryOctaveOffset, m_pitchBendCents>>

fxVars == <<m_effects, heap, m_lowPassActive, m_lastLowPassCutoff>>

\* Everything an AudioSystem call can change in the engine and its effects.
engineState == <<noteVars, oscVars, paramVars, fxVars, m_envelope, m_waveformTap>>

\* The callers' record of what they called and got back.
callerVars == <<last, out, calls>>

threadVars == <<a_pc, a_i, a_sample, a_raced, u_pc, u_arg, u_raced, k_pc, k_arg, k_raced>>

\* Further observations, kept by the specifications of the voice, the chain
\* and the MIDI translator.
probeVars == <<run, added, events>>

\* The N-API wrapper and the TypeScript service above the engine.
wrapperVars == <<m_activeFrequencies, m_currentFrequency, activeFrequencies>>

\* The objects that are modelled on their own, outside an engine.
delayVars == <<delayEffect, echo>>

biquadVars == <<lowPassEffect, heard>>

queueVars == <<taskQueue, m_running, w_pc, w_task, o_pc, puts, ran, finished, caught>>

baseVars == <<m_thread, workers, s_pc, s_last>>

subjectVars == <<observers, notifying, observed>>

serviceVars == <<isInitialized, audioSystem, instances, serviceLast>>

utilVars == <<baseVars, subjectVars, serviceVars>>

soloVars == <<delayVars, biquadVars, queueVars, utilVars>>

unitVars == <<wrapperVars, soloVars>>

engVars == <<engineState, callerVars, threadVars, probeVars, unitVars>>

vars == <<ringVars, concVars, engVars>>

\* ------------------------------------------------------------------ bounds
MaxCap == 3        \* largest capacityFrames passed to the constructor
MaxPush == 7       \* most push calls in one behaviour
MaxFrames == 4     \* largest maxFrames passed to copyLatestInterleaved
MaxConcCap == 2    \* largest capacity in the concurrent ring specification
MaxConcPush == 4   \* most push calls in the concurrent ring specification
MaxConcFrames == 2 \* largest maxFrames in the concurrent ring specification

\* ----------------------------------------------------------------- helpers
Min(a, b) == IF a <= b THEN a ELSE b
Max(a, b) == IF a >= b THEN a ELSE b
Abs(a) == IF a < 0 THEN -a ELSE a

\* The i-th frame fed to the tap (1-based): L = i, R = -i, as in scenario S5.
Frame(i) == <<i, -i>>

\* =====================================================================
\* StereoSampleRingBuffer
\* =====================================================================

\* StereoSampleRingBuffer(capacityFrames): capacity is max(1, capacityFrames).
RingCapacity(capacityFrames) == Max(1, capacityFrames)

RingInit(capacityFrames) ==
    /\ m_capacityFrames = RingCapacity(capacityFrames)
    /\ m_buffer = [i \in 0 .. (2 * RingCapacity(capacityFrames) - 1) |-> 0]
    /\ m_writeIndex = 0
    /\ m_totalFramesWritten = 0

\* push: frameIndex += 1; if (frameIndex >= m_capacityFrames) frameIndex = 0
NextWriteIndexWrong(frameIndex, cap) == IF frameIndex + 1 > cap THEN 0 ELSE frameIndex + 1
NextWriteIndex(frameIndex, cap) == IF frameIndex + 1 >= cap THEN 0 ELSE frameIndex + 1

\* push: m_buffer[sampleIndex] = left; m_buffer[sampleIndex + 1] = right
StoreFrame(buf, frameIndex, left, right) ==
    [buf EXCEPT ![2 * frameIndex] = left, ![2 * frameIndex + 1] = right]

\* availableFrames(): min(written, m_capacityFrames)
AvailableFramesFull(written, cap) == cap
AvailableFrames(written, cap) == Min(written, cap)

\* copyLatestInterleaved: startFrame = writeIndex + capacity - framesToCopy,
\* reduced modulo capacity when it is >= capacity.
StartFrameWrong(writeIndex, cap, framesToCopy) ==
    IF writeIndex >= framesToCopy THEN writeIndex - framesToCopy ELSE 0
StartFrame(writeIndex, cap, framesToCopy) ==
    LET s == writeIndex + cap - framesToCopy
    IN  IF s >= cap THEN s % cap ELSE s

\* copyLatestInterleaved, loop body: frameIndex = startFrame + i, wrapped once.
FrameIndexAt(startFrame, i, cap) ==
    IF startFrame + i >= cap THEN startFrame + i - cap ELSE startFrame + i

\* The interleaved samples copyLatestInterleaved writes for framesToCopy frames.
CopyOut(buf, startFrame, framesToCopy, cap) ==
    [j \in 1 .. (2 * framesToCopy) |->
        buf[2 * FrameIndexAt(startFrame, (j - 1) \div 2, cap) + ((j - 1) % 2)]]

\* dest after a copy of n frames: the first 2n floats are overwritten.
Overwrite(old, new) ==
    [j \in 1 .. Max(Len(old), Len(new)) |-> IF j <= Len(new) THEN new[j] ELSE old[j]]

\* void push(float left, float right): the whole call, on the ring's fields.
Push(left, right) ==
    /\ m_buffer' = StoreFrame(m_buffer, m_writeIndex, left, right)
    /\ m_writeIndex' = NextWriteIndex(m_writeIndex, m_capacityFrames)
    /\ m_totalFramesWritten' = m_totalFramesWritten + 1
    /\ UNCHANGED m_capacityFrames

\* std::size_t copyLatestInterleaved(float* dest, std::size_t maxFrames):
\* the whole call, with no push running.
CopyLatestInterleaved(hasDest, maxFrames) ==
    LET available == AvailableFrames(m_totalFramesWritten, m_capacityFrames)
        framesToCopy == Min(maxFrames, available)
        startFrame == StartFrame(m_writeIndex, m_capacityFrames, framesToCopy)
    IN  /\ IF ~hasDest \/ maxFrames = 0 \/ framesToCopy = 0
           THEN /\ copied' = 0
                /\ UNCHANGED dest
           ELSE /\ copied' = framesToCopy
                /\ dest' = Overwrite(dest,
                              CopyOut(m_buffer, startFrame, framesToCopy, m_capacityFrames))
        /\ UNCHANGED <<m_capacityFrames, m_buffer, m_writeIndex, m_totalFramesWritten>>

\* No thread is inside a ring-buffer call.
ConcInit ==
    /\ p_pc = "idle"
    /\ p_frameIndex = 0
    /\ p_frame = <<0, 0>>
    /\ p_counted = FALSE
    /\ c_pc = "idle"
    /\ c_maxFrames = 0
    /\ c_framesToCopy = 0
    /\ c_startFrame = 0
    /\ c_i = 0
    /\ c_snap = 0
    /\ c_overlap = 0

RingCallerInit ==
    /\ pushed = <<>>
    /\ dest = <<>>
    /\ copied = 0
    /\ ringLast = [op |-> "none", maxFrames |-> 0, hasDest |-> TRUE]

\* =====================================================================
\* AudioSystem (the engine) and the objects it drives
\* =====================================================================

\* ---- numbers ---------------------------------------------------------
FreqPerHz == 2 ^ 10                  \* frequency unit: 1/1024 Hz
PhaseSteps == 2 * 2                  \* phase unit: a quarter cycle
MixOne == 2                          \* mix unit: 1/2, so MixOne is mix 1.0
LevelMax == 4                        \* envelope level unit: 1/LevelMax
NaN == 0 - 2 ^ 30                    \* the float NaN (no number of the model)
kMinSampleRate == 100                \* LowPassEffect::kMinSampleRate
MaxValidHz == 20000                  \* triggerNote: newFrequency > 20000.0f
kMinCutoff == 20                     \* LowPassEffect::kMinCutoff
minCutoff == 80                      \* AudioSystemAdapter::update: minCutoff = 80.0f
maxCutoff == 12000                   \* AudioSystemAdapter::update: maxCutoff = 12000.0f
DefaultCutoffHz == 1200              \* LowPassEffect(cutoff = 1200.0f, ...)
DefaultEffectSampleRateHz == 44100   \* effect constructors: sampleRate = 44100.0f
ConfigCutoffHz == 1000               \* configure: LowPassEffect(1000.0f, m_sampleRate)

\* The engine of the model is constructed with sample rate 200 Hz.
SampleRateHz == 2 * kMinSampleRate
SampleRate == SampleRateHz * FreqPerHz

IsNaN(x) == x = NaN
\* Float comparisons: every ordered comparison with NaN is false.
FLe(a, b) == ~IsNaN(a) /\ ~IsNaN(b) /\ a <= b
FLt(a, b) == ~IsNaN(a) /\ ~IsNaN(b) /\ a < b
FGt(a, b) == ~IsNaN(a) /\ ~IsNaN(b) /\ a > b

\* ---- ADSREnvelope (Envelope/ADSREnvelope.h is not among the sources;
\* modelled from the specification, sections 3 and 4.2).  Times are in
\* samples, levels in units of 1/LevelMax; a ramp moves at least one level
\* unit per sample.
CeilDiv(a, b) == IF b <= 0 THEN a ELSE (a + b - 1) \div b

ADSREnvelope(attack, decay, sustain, release) ==
    [state |-> "Idle", level |-> 0,
     attack |-> Max(attack, 0), decay |-> Max(decay, 0),
     sustain |-> Min(Max(sustain, 0), LevelMax), release |-> Max(release, 0),
     releaseStep |-> 0]

EnvelopeReset(e) == [e EXCEPT !.state = "Idle", !.level = 0, !.releaseStep = 0]

\* The state after the note_on flag is sampled.
EnvelopeGate(e, noteOn) ==
    IF noteOn /\ e.state \in {"Idle", "Release"}
    THEN [e EXCEPT !.state = "Attack"]
    ELSE IF ~noteOn /\ e.state \in {"Attack", "Decay", "Sustain"}
    THEN [e EXCEPT !.state = "Release",
                   !.releaseStep = Max(1, CeilDiv(e.level, e.release))]
    ELSE e

\* One sample of the ramp of the current state.
EnvelopeRamp(e) ==
    CASE e.state = "Attack" ->
            LET lvl == e.level + Max(1, CeilDiv(LevelMax, e.attack))
            IN  IF lvl >= LevelMax
                THEN [e EXCEPT !.level = LevelMax, !.state = "Decay"]
                ELSE [e EXCEPT !.level = lvl]
      [] e.state = "Decay" ->
            LET lvl == e.level - Max(1, CeilDiv(LevelMax - e.sustain, e.decay))
            IN  IF lvl <= e.sustain
                THEN [e EXCEPT !.level = e.sustain, !.state = "Sustain"]
                ELSE [e EXCEPT !.level = lvl]
      [] e.state = "Sustain" -> [e EXCEPT !.level = e.sustain]
      [] e.state = "Release" ->
            LET lvl == e.level - e.releaseStep
            IN  IF lvl <= 0
                THEN [e EXCEPT !.level = 0, !.state = "Idle"]
                ELSE [e EXCEPT !.level = lvl]
      [] OTHER -> [e EXCEPT !.level = 0]

\* process(note_on, sample_rate): the envelope after the call; its level is
\* the value returned.
EnvelopeProcess(e, noteOn) == EnvelopeRamp(EnvelopeGate(e, noteOn))

\* ---- waveform generators (Waves/*.h are not among the sources; modelled
\* from the specification, section 4.1).  Output in units of 1/2.
WaveValue(kind, phase) ==
    CASE IsNaN(phase) -> 0
      [] kind = "sine" -> 2 * ((IF phase = 1 THEN 1 ELSE 0) - (IF phase = 3 THEN 1 ELSE 0))
      [] kind = "saw" -> phase - 2
      [] kind = "triangle" -> 2 * Abs(phase - 2) - 2
      [] OTHER -> IF 2 * phase < PhaseSteps THEN 2 ELSE -2

\* phase advanced by freq / sample_rate, wrapped into [0, 1).
AdvancePhase(phase, freq) ==
    IF IsNaN(phase) \/ IsNaN(freq) THEN NaN
    ELSE (phase + ((freq * PhaseSteps) \div SampleRate)) % PhaseSteps

\* ---- effect objects ------------------------------------------------------
\* Handles are shared_ptr<IEffect> values; 0 is the null pointer.
NumHandles == 3
Handles == 1 .. NumHandles

\* AudioSystem::configure makes effect objects of its own; no caller holds a
\* handle to them.  The effect lists of the configurations used below.
ConfigEffectLists == {<<>>, <<"delay", "LPF">>, <<"octave", "reverb">>, <<"filter", "lowpass">>}
MostConfigured == CHOOSE n \in 0 .. 8 : /\ \A l \in ConfigEffectLists : Len(l) <= n
                                        /\ \E l \in ConfigEffectLists : Len(l) = n
ConfigHandles == (NumHandles + 1) .. (NumHandles + MostConfigured)
Objects == Handles \cup ConfigHandles

\* A slot of the heap that holds no object.
FreeObject ==
    [kind |-> "none", m_sampleRate |-> 0, m_cutoff |-> 0,
     m_frequency |-> 0, m_higher |-> FALSE, m_blendPositive |-> FALSE, zeroed |-> TRUE]

KindOf(h) ==
    CASE h % 3 = 1 -> "lowpass"
      [] h % 3 = 2 -> "delay"
      [] OTHER -> "octave"

\* LowPassEffect::setCutoff / setSampleRate: the largest cutoff, 0.45 of
\* Nyquist, never below kMinCutoff.
MaxCutoff(sampleRateHz) == Max((sampleRateHz * 45) \div 200, kMinCutoff)

ClampValue(value, low, high) == IF value < low THEN low ELSE IF value > high THEN high ELSE value

\* DelayEffect.h: delay times in milliseconds, feedback in hundredths.
kMinDelaySeconds == 5
kMaxDelaySeconds == 2500
kMaxFeedback == 97
DefaultDelayMs == 300
DefaultFeedback == 50

\* DelayEffect: clampValue(delayTime, kMinDelaySeconds, kMaxDelaySeconds)
DelayClampTime(delayTime) == ClampValue(delayTime, kMinDelaySeconds, kMaxDelaySeconds)

\* The objects as their default constructors leave them.  zeroed: every
\* internal memory (filter z1/z2, delay buffers, one-pole state) is 0.
NewEffect(h) ==
    CASE KindOf(h) = "lowpass" ->
            [kind |-> "lowpass", m_sampleRate |-> DefaultEffectSampleRateHz,
             m_cutoff |-> ClampValue(DefaultCutoffHz, kMinCutoff,
                                     MaxCutoff(DefaultEffectSampleRateHz)),
             m_frequency |-> 0, m_higher |-> FALSE, m_blendPositive |-> FALSE,
             zeroed |-> TRUE]
      [] KindOf(h) = "delay" ->
            [kind |-> "delay", m_sampleRate |-> DefaultEffectSampleRateHz,
             m_cutoff |-> 0,
             m_delayTime |-> DelayClampTime(DefaultDelayMs),
             m_feedback |-> ClampValue(DefaultFeedback, 0, kMaxFeedback),
             m_mix |-> ClampValue(MixOne \div 2, 0, MixOne),
             m_frequency |-> 0, m_higher |-> FALSE, m_blendPositive |-> FALSE,
             zeroed |-> TRUE]
      [] OTHER ->
            [kind |-> "octave", m_sampleRate |-> DefaultEffectSampleRateHz,
             m_cutoff |-> 0,
             m_frequency |-> 0, m_higher |-> FALSE, m_blendPositive |-> TRUE,
             zeroed |-> TRUE]

\* LowPassEffect::setSampleRate
LowPassSetSampleRate(e, sampleRateHz) ==
    LET clampedRate == Max(sampleRateHz, kMinSampleRate)
    IN  IF clampedRate = e.m_sampleRate THEN e
        ELSE [e EXCEPT !.m_sampleRate = clampedRate,
                       !.m_cutoff = ClampValue(e.m_cutoff, kMinCutoff,
                                               (clampedRate * 45) \div 200)]

\* LowPassEffect::setCutoff
LowPassSetCutoff(e, cutoffHz) ==
    [e EXCEPT !.m_cutoff = ClampValue(cutoffHz, kMinCutoff, MaxCutoff(e.m_sampleRate))]

\* DelayEffect::setSampleRate: a new rate reallocates (and so zeroes) the
\* buffers, whose size follows the rate.
DelaySetSampleRate(e, sampleRateHz) ==
    IF sampleRateHz <= kMinSampleRate \/ sampleRateHz = e.m_sampleRate THEN e
    ELSE [e EXCEPT !.m_sampleRate = sampleRateHz, !.zeroed = TRUE]

\* OctaveEffect::setFrequency followed by setSampleRate
OctaveSetFrequency(e, frequency) ==
    IF FGt(frequency, 0) /\ FLe(frequency, MaxValidHz * FreqPerHz)
    THEN [e EXCEPT !.m_frequency = frequency] ELSE e

OctaveSetSampleRate(e, sampleRateHz) ==
    IF sampleRateHz > 0 THEN [e EXCEPT !.m_sampleRate = sampleRateHz] ELSE e

\* IEffect::reset of each kind: every memory zeroed.
EffectReset(e) == [e EXCEPT !.zeroed = TRUE]

\* IEffect::process of each kind on a stereo sample s = [amp, fx]: the
\* object afterwards.  A zero input leaves zero memories zero.
EffectAfterProcess(e, s) ==
    CASE e.kind = "lowpass" -> [e EXCEPT !.zeroed = e.zeroed /\ s.amp = 0]
      [] e.kind = "delay" -> [e EXCEPT !.zeroed = e.zeroed /\ s.amp = 0]
      [] OTHER -> IF e.m_blendPositive /\ ~e.m_higher
                  THEN [e EXCEPT !.zeroed = e.zeroed /\ s.amp = 0]
                  ELSE e

\* The sample an effect returns: the dry amplitude it was given, marked with
\* the handle of every effect that shaped it, in order.
EffectOutput(h, e, s) ==
    IF e.kind = "octave" /\ ~e.m_blendPositive THEN s
    ELSE [s EXCEPT !.fx = Append(s.fx, h)]

\* ---- AudioSystem ---------------------------------------------------------
\* Seconds, given in tenths, as a number of samples at the engine's rate.
TenthsToSamples(tenths) == (tenths * SampleRateHz) \div 10

\* AudioSystem::AudioSystem(sampleRate)
\* ---- DelayEffect in full (DelayEffect.cpp) ---------------------------------
\* Sample values are in units of 1 / DelayOne, delay times in milliseconds,
\* feedback in hundredths, mix in units of 1 / MixOne and sample rates in Hz.
\* The code accepts no rate below 100 Hz; the model scales that floor down
\* to DelayRateFloor, so that the buffers are a few cells long.
DelayOne == 64          \* the sample value 1.0
DelayRateFloor == 1     \* 100.0f of lines 27 and 72

\* static_cast<std::size_t> of a NaN is undefined: the builds give 0 or a
\* value beyond every vector's max_size().
Huge == 2 ^ 20
UndefinedSizes == {0, Huge}

\* clampValue, lines 8-12: a NaN passes through both comparisons.
DelayClampValue(value, low, high) ==
    IF FLt(value, low) THEN low ELSE IF FGt(value, high) THEN high ELSE value

\* std::round of n / d, halves away from zero.
Round(n, d) ==
    IF n >= 0 THEN (2 * n + d) \div (2 * d) ELSE 0 - ((2 * (0 - n) + d) \div (2 * d))

\* bufferLength(), DelayEffect.h:66
BufferLength(d) == Len(d.m_bufferLeft)

\* Cell i of the vectors is element i + 1 of the sequences.
Zeroes(n) == [i \in 1 .. n |-> 0]

\* line 111: the values static_cast<std::size_t>(std::ceil(kMaxDelaySeconds *
\* m_sampleRate)) can take.
RequiredCasts(d) ==
    IF IsNaN(d.m_sampleRate) THEN UndefinedSizes
    ELSE {CeilDiv(kMaxDelaySeconds * d.m_sampleRate, 1000)}

\* line 139: the values static_cast<std::size_t>(std::round(m_delayTime *
\* m_sampleRate)) can take.
SamplesCasts(d) ==
    IF IsNaN(d.m_delayTime) \/ IsNaN(d.m_sampleRate) THEN UndefinedSizes
    ELSE {Round(d.m_delayTime * d.m_sampleRate, 1000)}

\* void DelayEffect::allocateBuffers(), lines 109-129, the cast of line 111
\* having given cast (not Huge: assign then throws std::length_error).
AllocateBuffersKeepingIndex(d, cast) ==
    LET targetSize == Max(cast + 1, 2)
    IN  [d EXCEPT !.m_bufferLeft = IF targetSize # Len(@) THEN Zeroes(targetSize) ELSE @,
                  !.m_bufferRight = IF targetSize # Len(@) THEN Zeroes(targetSize) ELSE @,
                  !.m_delaySamples = IF @ >= targetSize THEN targetSize - 1 ELSE @]
AllocateBuffers(d, cast) ==
    LET targetSize == Max(cast + 1, 2)
    IN  [d EXCEPT !.m_bufferLeft = IF targetSize # Len(@) THEN Zeroes(targetSize) ELSE @,
                  !.m_bufferRight = IF targetSize # Len(@) THEN Zeroes(targetSize) ELSE @,
                  !.m_writeIndex = IF @ >= targetSize THEN 0 ELSE @,
                  !.m_delaySamples = IF @ >= targetSize THEN targetSize - 1 ELSE @]

\* void DelayEffect::updateDelaySamples(), lines 131-141, the cast of line
\* 139 having given cast.
UpdateDelaySamples(d, cast) ==
    IF BufferLength(d) = 0 THEN d
    ELSE [d EXCEPT !.m_delaySamples = ClampValue(cast, 1, BufferLength(d) - 1)]

\* void DelayEffect::reset(), lines 63-68
DelayReset(d) ==
    [d EXCEPT !.m_bufferLeft = Zeroes(Len(@)),
              !.m_bufferRight = Zeroes(Len(@)),
              !.m_writeIndex = 0]

\* DelayEffect::DelayEffect(delayTime, feedback, mix, sampleRate), lines
\* 19-32: the objects it can make (std::max(NaN, 100.0f) is NaN; with a NaN
\* rate the cast of allocateBuffers is undefined, and no object is made when
\* assign throws).
DelayEffectNew(delayTime, feedback, mix, sampleRate) ==
    LET members == [m_bufferLeft |-> <<>>, m_bufferRight |-> <<>>,
                    m_writeIndex |-> 0, m_delaySamples |-> 1,
                    m_delayTime |-> DelayClampValue(delayTime, kMinDelaySeconds,
                                                    kMaxDelaySeconds),
                    m_feedback |-> DelayClampValue(feedback, 0, kMaxFeedback),
                    m_mix |-> DelayClampValue(mix, 0, MixOne),
                    m_sampleRate |-> IF FLt(sampleRate, DelayRateFloor)
                                     THEN DelayRateFloor ELSE sampleRate]
    IN  {DelayReset(UpdateDelaySamples(AllocateBuffers(members, r), n)) :
            r \in RequiredCasts(members) \ {Huge}, n \in SamplesCasts(members)}

\* line 42: readIndex, as a cell number
ReadIndexAtWrite(d) == d.m_writeIndex
ReadIndex(d) == (d.m_writeIndex + BufferLength(d) - d.m_delaySamples) % BufferLength(d)

\* lines 46-50: the value written back for input x and delayed sample y
FeedbackSampleLossless(d, x, y) == ClampValue(x + y, 0 - 2 * DelayOne, 2 * DelayOne)
FeedbackSample(d, x, y) ==
    ClampValue(x + Round(y * d.m_feedback, 100), 0 - 2 * DelayOne, 2 * DelayOne)

\* std::pair<float, float> DelayEffect::process(stereoSample), lines 34-61:
\* the object afterwards, the delayed pair it read and the pair it returns
\* (in units of 1 / (MixOne * DelayOne)).
DelayProcess(d, stereoSample) ==
    LET delayedLeft == d.m_bufferLeft[ReadIndex(d) + 1]
        delayedRight == d.m_bufferRight[ReadIndex(d) + 1]
    IN  [object |->
            [d EXCEPT !.m_bufferLeft[d.m_writeIndex + 1] =
                          FeedbackSample(d, stereoSample[1], delayedLeft),
                      !.m_bufferRight[d.m_writeIndex + 1] =
                          FeedbackSample(d, stereoSample[2], delayedRight),
                      !.m_writeIndex = (@ + 1) % BufferLength(d)],
         delayed |-> <<delayedLeft, delayedRight>>,
         out |-> <<(MixOne - d.m_mix) * stereoSample[1] + d.m_mix * delayedLeft,
                   (MixOne - d.m_mix) * stereoSample[2] + d.m_mix * delayedRight>>]

\* void DelayEffect::setSampleRate(float sampleRate), lines 70-85, the cast
\* of allocateBuffers having given r and that of updateDelaySamples n; with
\* r = Huge the assign throws after m_sampleRate was written.
DelaySetRate(d, sampleRate, r, n) ==
    IF FLe(sampleRate, DelayRateFloor) \/ (~IsNaN(sampleRate) /\ sampleRate = d.m_sampleRate)
    THEN d
    ELSE IF r = Huge THEN [d EXCEPT !.m_sampleRate = sampleRate]
    ELSE UpdateDelaySamples(AllocateBuffers([d EXCEPT !.m_sampleRate = sampleRate], r), n)

\* void DelayEffect::setDelayTime(float delayTime), lines 87-97
DelaySetDelayTime(d, delayTime, n) ==
    LET clamped == DelayClampValue(delayTime, kMinDelaySeconds, kMaxDelaySeconds)
    IN  IF ~IsNaN(clamped) /\ clamped = d.m_delayTime THEN d
        ELSE UpdateDelaySamples([d EXCEPT !.m_delayTime = clamped], n)

\* void DelayEffect::setFeedback(float feedback), lines 99-102
DelaySetFeedback(d, feedback) ==
    [d EXCEPT !.m_feedback = DelayClampValue(feedback, 0, kMaxFeedback)]

\* void DelayEffect::setMix(float mix), lines 104-107
DelaySetMix(d, mix) == [d EXCEPT !.m_mix = DelayClampValue(mix, 0, MixOne)]

\* The caller's record of a call on the DelayEffect; before is the write
\* index the call found.
EchoCalled(op) ==
    [op |-> op, input |-> <<0, 0>>, out |-> <<0, 0>>, delayed |-> <<0, 0>>,
     pulses |-> 0, threw |-> FALSE, before |-> delayEffect.m_writeIndex]

\* A DelayEffect of the default delay, feedback and mix at the lowest rate.
DelayInit ==
    /\ delayEffect \in DelayEffectNew(DefaultDelayMs, DefaultFeedback, MixOne \div 2, 0)
    /\ echo = EchoCalled("none")

\* ---- LowPassEffect: the biquad (LowPassEffect.cpp) ----------------------
\* Coefficients, angles, sines and the filter's memory are counted in
\* 1/CoefOne; the resonance in hundredths; the mix in 1/MixOne.
CoefOne == 10 ^ 4

Pi == 31416                          \* M_PI, in 1/CoefOne
kMinQ == 10                          \* LowPassEffect::kMinQ = 0.1f
kMaxQ == 1000                        \* LowPassEffect::kMaxQ = 10.0f
DefaultResonance == 90               \* LowPassEffect(..., resonance = 0.9f, ...)

\* One step of a power series: t * x * x / k, each product kept in 32 bits.
TrigTerm(t, x, k) == (((t * x) \div CoefOne) * x) \div (CoefOne * k)

\* std::sin and std::cos on [0, 0.45 * pi], line 115-116, by their series up
\* to the ninth and the eighth power.
Sin(x) ==
    LET t3 == TrigTerm(x, x, 6)
        t5 == TrigTerm(t3, x, 20)
        t7 == TrigTerm(t5, x, 42)
        t9 == TrigTerm(t7, x, 72)
    IN  x - t3 + t5 - t7 + t9

Cos(x) ==
    LET t2 == TrigTerm(CoefOne, x, 2)
        t4 == TrigTerm(t2, x, 12)
        t6 == TrigTerm(t4, x, 30)
        t8 == TrigTerm(t6, x, 56)
    IN  CoefOne - t2 + t4 - t6 + t8

\* The product of a coefficient and a value both counted in 1/CoefOne.
Scale(c, v) == c * (v \div CoefOne) + (c * (v % CoefOne)) \div CoefOne

PassThroughCoefficients ==
    [m_b0 |-> CoefOne, m_b1 |-> 0, m_b2 |-> 0, m_a1 |-> 0, m_a2 |-> 0]

\* The five coefficients of updateCoefficients when it takes the branch of
\* its argument: lines 104-108, or lines 112-131.
CoefficientsOf(e, passThrough) ==
    IF passThrough THEN PassThroughCoefficients
    ELSE LET highest == (e.m_sampleRate * 45) \div 200
             cutoff == ClampValue(e.m_cutoff, kMinCutoff, Max(highest, kMinCutoff))
             omega == (2 * Pi * cutoff) \div e.m_sampleRate
             sinw == Sin(omega)
             cosw == Cos(omega)
             alpha == (sinw * 100) \div (2 * e.m_q)
             b1 == CoefOne - cosw
             b0 == b1 \div 2
             a0 == CoefOne + alpha
             a1 == 0 - 2 * cosw
             a2 == CoefOne - alpha
         IN  [m_b0 |-> (b0 * CoefOne) \div a0,
              m_b1 |-> (b1 * CoefOne) \div a0,
              m_b2 |-> (b0 * CoefOne) \div a0,
              m_a1 |-> (a1 * CoefOne) \div a0,
              m_a2 |-> (a2 * CoefOne) \div a0]

Coefficients(e) ==
    [m_b0 |-> e.m_b0, m_b1 |-> e.m_b1, m_b2 |-> e.m_b2, m_a1 |-> e.m_a1, m_a2 |-> e.m_a2]

WithCoefficients(e, c) ==
    [e EXCEPT !.m_b0 = c.m_b0, !.m_b1 = c.m_b1, !.m_b2 = c.m_b2,
              !.m_a1 = c.m_a1, !.m_a2 = c.m_a2]

\* void LowPassEffect::updateCoefficients(), lines 99-132: pass-through
\* when the Nyquist frequency is at most kMinCutoff, else the low-pass
\* biquad of the cutoff, the rate and the resonance.
UpdateCoefficients(e) ==
    WithCoefficients(e, CoefficientsOf(e, e.m_sampleRate <= 2 * kMinCutoff))

\* void LowPassEffect::setCutoff(float cutoff), lines 64-75: a cutoff that
\* clamps to the one in force changes nothing.
LowPassEffectSetCutoff(e, cutoff) ==
    LET highest == (e.m_sampleRate * 45) \div 200
        clamped == ClampValue(cutoff, kMinCutoff, Max(highest, kMinCutoff))
    IN  IF clamped = e.m_cutoff THEN e
        ELSE UpdateCoefficients([e EXCEPT !.m_cutoff = clamped])

\* LowPassEffect::LowPassEffect, lines 12-26: the cutoff starts at
\* kMinCutoff and the coefficients at zero, then setCutoff(cutoff) runs.
LowPassEffectNew(cutoff, sampleRate, resonance, mix) ==
    LowPassEffectSetCutoff(
        [m_cutoff |-> kMinCutoff,
         m_sampleRate |-> Max(sampleRate, kMinSampleRate),
         m_q |-> ClampValue(resonance, kMinQ, kMaxQ),
         m_mix |-> ClampValue(mix, 0, MixOne),
         m_b0 |-> 0, m_b1 |-> 0, m_b2 |-> 0, m_a1 |-> 0, m_a2 |-> 0,
         m_leftState |-> [z1 |-> 0, z2 |-> 0],
         m_rightState |-> [z1 |-> 0, z2 |-> 0]],
        cutoff)

\* void LowPassEffect::setSampleRate(float sampleRate), lines 51-62
LowPassEffectSetSampleRate(e, sampleRate) ==
    LET clampedRate == Max(sampleRate, kMinSampleRate)
    IN  IF clampedRate = e.m_sampleRate THEN e
        ELSE UpdateCoefficients(
                 [e EXCEPT !.m_sampleRate = clampedRate,
                           !.m_cutoff = ClampValue(e.m_cutoff, kMinCutoff,
                                                   (clampedRate * 45) \div 200)])

\* void LowPassEffect::setResonance(float resonance), lines 77-87
LowPassEffectSetResonance(e, resonance) ==
    LET clamped == ClampValue(resonance, kMinQ, kMaxQ)
    IN  IF clamped = e.m_q THEN e
        ELSE UpdateCoefficients([e EXCEPT !.m_q = clamped])

\* void LowPassEffect::setMix(float mix), lines 89-92
LowPassEffectSetMix(e, mix) == [e EXCEPT !.m_mix = ClampValue(mix, 0, MixOne)]

\* void LowPassEffect::reset(), lines 45-49
LowPassEffectReset(e) ==
    [e EXCEPT !.m_leftState = [z1 |-> 0, z2 |-> 0],
              !.m_rightState = [z1 |-> 0, z2 |-> 0]]

\* One channel of process, lines 30-34: the wet sample in 1/CoefOne, the
\* memory after it, and the output in 1/(MixOne * CoefOne).
ProcessChannel(e, state, dry) ==
    LET wet == e.m_b0 * dry + state.z1
    IN  [wet |-> wet,
         state |-> [z1 |-> e.m_b1 * dry + state.z2 - Scale(e.m_a1, wet),
                    z2 |-> e.m_b2 * dry - Scale(e.m_a2, wet)],
         out |-> (MixOne - e.m_mix) * dry * CoefOne + e.m_mix * wet]

\* std::pair<float, float> LowPassEffect::process, lines 28-43
LowPassEffectProcess(e, stereoSample) ==
    LET left == ProcessChannel(e, e.m_leftState, stereoSample[1])
        right == ProcessChannel(e, e.m_rightState, stereoSample[2])
    IN  [object |-> [e EXCEPT !.m_leftState = left.state,
                              !.m_rightState = right.state],
         out |-> <<left.out, right.out>>]

\* The caller's record of a call on the LowPassEffect; requested is the
\* cutoff the constructor or setCutoff was last given.
HeardCalled(op, requested) ==
    [op |-> op, requested |-> requested, input |-> <<0, 0>>, out |-> <<0, 0>>,
     calls |-> 0]

\* A LowPassEffect of the constructor's defaults.
BiquadInit ==
    /\ lowPassEffect = LowPassEffectNew(DefaultCutoffHz, DefaultEffectSampleRateHz,
                                        DefaultResonance, MixOne)
    /\ heard = HeardCalled("LowPassEffect", DefaultCutoffHz)

\* ---- QueueThread (QueueThread.cpp) --------------------------------------
NoTask == [id |-> 0, throws |-> FALSE]

\* The members besides the queue and the flag, and the observations.
QueueRestInit ==
    /\ w_pc = "while"
    /\ w_task = NoTask
    /\ o_pc = "idle"
    /\ puts = <<>>
    /\ ran = <<>>
    /\ finished = {}
    /\ caught = {}

\* QueueThread::QueueThread, lines 6-9: start() sets m_running and launches
\* the worker, which has not yet read m_running.
QueueInit ==
    /\ taskQueue = <<>>
    /\ m_running = TRUE
    /\ QueueRestInit

\* ---- ThreadBase (threadBase.cpp) ----------------------------------------
MaxStarts == 4                       \* workers one ThreadBase launches in its life

WorkerIds == 1 .. MaxStarts

\* ThreadBase::ThreadBase, lines 5-7: m_running(false), no thread.  The
\* flag itself is the variable m_running, set by the specification's Init.
BaseInit ==
    /\ m_thread = 0
    /\ workers = [w \in WorkerIds |-> "absent"]
    /\ s_pc = "idle"
    /\ s_last = [op |-> "none", launched |-> FALSE, threw |-> FALSE]

\* ---- Subject (subject.cpp) ----------------------------------------------
Notifiers == 1 .. 2                  \* the threads that call notify

NotNotifying == [i |-> 0, params |-> 0, got |-> <<>>]

SubjectInit ==
    /\ observers = <<>>
    /\ notifying = [t \in Notifiers |-> NotNotifying]
    /\ observed = [op |-> "none", observer |-> 0, before |-> <<>>, attached |-> <<>>]

\* ---- AudioService (AudioService.ts) -------------------------------------
\* AudioService fields, lines 13-16: audioSystem = null, isInitialized = false
ServiceInit ==
    /\ isInitialized = FALSE
    /\ audioSystem = 0
    /\ instances = 0
    /\ serviceLast = [op |-> "none", threw |-> FALSE, native |-> <<>>,
                      result |-> <<>>, before |-> <<>>]

UtilInit == BaseInit /\ SubjectInit /\ ServiceInit

\* The wrapper and the service after construction: nothing is held.
WrapperInit ==
    /\ m_activeFrequencies = <<>>
    /\ m_currentFrequency = 0
    /\ activeFrequencies = {}

UnitInit == WrapperInit /\ DelayInit /\ BiquadInit /\ QueueInit /\ UtilInit

EngineInit ==
    /\ m_frequency = 0
    /\ m_primaryPhase = 0
    /\ m_secondaryPhase = 0
    /\ m_noteOn = FALSE
    /\ m_lfoPhase = 0
    /\ m_lfoRateHz = (35 * FreqPerHz) \div 100
    /\ m_lfoAmountCents = 4
    /\ m_noteJitterAmountCents = 3
    /\ m_noteDetuneCents = 0
    /\ m_waveformTap = FALSE
    /\ m_secondaryEnabled = FALSE
    /\ m_secondaryMix = 0
    /\ m_secondaryDetuneCents = 0
    /\ m_secondaryOctaveOffset = 0
    /\ m_pitchBendCents = [num |-> 0, den |-> 1]
    /\ m_lowPassActive = FALSE
    /\ m_lastLowPassCutoff = 0
    /\ m_primaryWaveform = "square"
    /\ m_secondaryWaveform = "square"
    /\ m_envelope = ADSREnvelope(TenthsToSamples(1), TenthsToSamples(2),
                                 (7 * LevelMax) \div 10, TenthsToSamples(3))
    /\ m_effects = <<>>
    /\ m_activeNotes = <<>>
    /\ heap = [h \in Objects |-> IF h \in Handles THEN NewEffect(h) ELSE FreeObject]
    /\ last = [op |-> "none", f |-> 0, had |-> FALSE, hit |-> FALSE, pair |-> FALSE]
    /\ out = [amp |-> 0, fx |-> <<>>]
    /\ calls = 0
    /\ run = 0
    /\ added = <<>>
    /\ events = <<>>
    /\ a_pc = "idle"
    /\ a_i = 0
    /\ a_sample = [amp |-> 0, fx |-> <<>>]
    /\ a_raced = FALSE
    /\ u_pc = "idle"
    /\ u_arg = 0
    /\ u_raced = FALSE
    /\ k_pc = "idle"
    /\ k_arg = 0
    /\ k_raced = FALSE

\* triggerNote, line 237: newFrequency <= 0.0f || newFrequency > 20000.0f
InvalidFrequencyAcceptsZero(newFrequency) ==
    FLt(newFrequency, 0) \/ FGt(newFrequency, MaxValidHz * FreqPerHz)
InvalidFrequency(newFrequency) ==
    FLe(newFrequency, 0) \/ FGt(newFrequency, MaxValidHz * FreqPerHz)

\* triggerNoteOff, isMatch: std::fabs(active.frequency - frequency) < 1e-3f,
\* that is 1000 * |difference| < FreqPerHz in the units of the model.
IsMatchWide(active, frequency) ==
    /\ ~IsNaN(active.frequency)
    /\ ~IsNaN(frequency)
    /\ Abs(active.frequency - frequency) <= 2 * ((FreqPerHz - 1) \div 1000)
IsMatch(active, frequency) ==
    /\ ~IsNaN(active.frequency)
    /\ ~IsNaN(frequency)
    /\ Abs(active.frequency - frequency) <= (FreqPerHz - 1) \div 1000

\* std::find_if over rbegin..rend: the last index whose note matches, 0 if none.
LastMatchIndex(notes, frequency) ==
    LET hits == {i \in 1 .. Len(notes) : IsMatch(notes[i], frequency)}
    IN  IF hits = {} THEN 0 ELSE CHOOSE i \in hits : \A j \in hits : j <= i

\* m_activeNotes.erase(std::next(revIt).base()): the vector without entry i.
EraseNothing(notes, i) == notes
EraseAt(notes, i) ==
    [j \in 1 .. (Len(notes) - 1) |-> IF j < i THEN notes[j] ELSE notes[j + 1]]

\* triggerNoteOff, lines 296-300: the vector after the erase, if any.
RemoveFirstMatch(notes, frequency) ==
    LET hits == {i \in 1 .. Len(notes) : IsMatch(notes[i], frequency)}
    IN  IF hits = {} THEN notes
        ELSE EraseAt(notes, CHOOSE i \in hits : \A j \in hits : i <= j)
RemoveLastMatch(notes, frequency) ==
    IF LastMatchIndex(notes, frequency) = 0 THEN notes
    ELSE EraseAt(notes, LastMatchIndex(notes, frequency))

\* triggerNoteOff, lines 302-312: note_on after the erase.
NoteOnAlways(notes) == TRUE
NoteOnAfterOff(notes) == notes # <<>>

\* triggerNoteOff, lines 308-310: the note that becomes current.
StaleNote(notes) == [frequency |-> m_frequency, detuneCents |-> m_noteDetuneCents]
CurrentAfterOff(notes) == notes[Len(notes)]

\* triggerNote, lines 261-276: what the call configures on one effect.
NoteConfigure(e, newFrequency) ==
    CASE e.kind = "octave" -> OctaveSetSampleRate(OctaveSetFrequency(e, newFrequency),
                                                  SampleRateHz)
      [] e.kind = "delay" -> DelaySetSampleRate(e, SampleRateHz)
      [] OTHER -> LowPassSetSampleRate(e, SampleRateHz)

\* addEffect, line 398: std::find(m_effects.begin(), m_effects.end(), effect)
\* finds the handle.
InChainNever(h) == FALSE
InChain(h) == \E i \in 1 .. Len(m_effects) : m_effects[i] = h

\* std::uniform_real_distribution<float>(-jitter, jitter): two of its values.
DetuneChoices(jitter) == IF jitter = 0 THEN {0} ELSE {0 - jitter, 0}

\* std::uniform_real_distribution<float>(0, 1) on the phase grid: two values.
LfoPhaseChoices == {0, PhaseSteps - 1}

\* triggerNote, line 241: const bool hadActiveNotes = !m_activeNotes.empty();
HadActiveNotesNever == FALSE
HadActiveNotes == m_activeNotes # <<>>

\* void AudioSystem::triggerNote(float newFrequency), lines 234-280.  detune
\* and lfoPhase are the two random draws.
TriggerNote(newFrequency, detune, lfoPhase) ==
    IF InvalidFrequency(newFrequency)
    THEN UNCHANGED engineState
    ELSE /\ m_activeNotes' = Append(m_activeNotes,
                                [frequency |-> newFrequency, detuneCents |-> detune])
         /\ m_frequency' = newFrequency
         /\ m_noteDetuneCents' = detune
         /\ m_noteOn' = TRUE
         /\ IF ~HadActiveNotes
            THEN /\ m_primaryPhase' = 0
                 /\ m_secondaryPhase' = 0
                 /\ m_lfoPhase' = lfoPhase
                 /\ m_envelope' = EnvelopeReset(m_envelope)
            ELSE UNCHANGED <<oscVars, m_envelope>>
         /\ heap' = [h \in Objects |->
                        IF InChain(h) THEN NoteConfigure(heap[h], newFrequency) ELSE heap[h]]
         /\ UNCHANGED <<paramVars, m_effects, m_lowPassActive, m_lastLowPassCutoff,
                        m_waveformTap>>

\* void AudioSystem::triggerNoteOff(float frequency), lines 282-313.
TriggerNoteOff(frequency) ==
    /\ IF IsNaN(frequency)
       THEN /\ m_activeNotes' = <<>>
            /\ m_noteOn' = FALSE
            /\ UNCHANGED <<m_frequency, m_noteDetuneCents>>
       ELSE /\ m_activeNotes' = RemoveLastMatch(m_activeNotes, frequency)
            /\ m_noteOn' = NoteOnAfterOff(m_activeNotes')
            /\ IF m_activeNotes' = <<>>
               THEN UNCHANGED <<m_frequency, m_noteDetuneCents>>
               ELSE /\ m_frequency' = CurrentAfterOff(m_activeNotes').frequency
                    /\ m_noteDetuneCents' = CurrentAfterOff(m_activeNotes').detuneCents
    /\ UNCHANGED <<oscVars, paramVars, fxVars, m_envelope, m_waveformTap>>

\* ---- getNextSample -------------------------------------------------------
\* std::pow(2.0f, cents / 1200.0f) applied to a frequency, to first order:
\* 2^(c/1200) is 1 + c/1731 for the few cents of detune, drift and bend.
Modulate(frequency, cents) ==
    IF IsNaN(frequency) THEN NaN ELSE frequency + (frequency \div 1731) * cents

\* frequency * std::pow(2.0f, octaveOffset)
OctaveShift(frequency, octaveOffset) ==
    IF IsNaN(frequency) THEN NaN
    ELSE IF octaveOffset >= 0 THEN frequency * (2 ^ octaveOffset)
    ELSE frequency \div (2 ^ (0 - octaveOffset))

\* m_pitchBendCents as a number of whole cents.
BendCents == m_pitchBendCents.num \div m_pitchBendCents.den

\* std::sin(twoPi * m_lfoPhase) on the phase grid: 0, 1, 0, -1.
LfoValue == WaveValue("sine", m_lfoPhase) \div 2

\* getNextSample, lines 322-326: the envelope after process(m_noteOn, ...).
EnvelopeAfterHeld == EnvelopeProcess(m_envelope, TRUE)
EnvelopeAfter == EnvelopeProcess(m_envelope, m_noteOn)

\* lines 332-347
ModulatedFrequency ==
    IF FGt(m_frequency, 0)
    THEN Modulate(m_frequency,
                  m_noteDetuneCents + LfoValue * m_lfoAmountCents + BendCents)
    ELSE m_frequency

\* line 352
SecondarySounds == m_secondaryEnabled /\ m_secondaryMix > 0

\* lines 354-356
SecondaryFrequency ==
    OctaveShift(Modulate(ModulatedFrequency, Max(m_secondaryDetuneCents, 0)),
                m_secondaryOctaveOffset)

\* lines 328-363: the mono sample, in units of 1 / (2 * MixOne * LevelMax).
DrySample ==
    IF EnvelopeAfter.level > 0
    THEN (WaveValue(m_primaryWaveform, m_primaryPhase) * Max(0, MixOne - m_secondaryMix)
          + (IF SecondarySounds
             THEN WaveValue(m_secondaryWaveform, m_secondaryPhase) ELSE 0) * m_secondaryMix)
         * EnvelopeAfter.level
    ELSE 0

\* AudioSystem::applyEffects, lines 378-389, from position i of the chain:
\* the sample returned and the effect objects afterwards.
RECURSIVE ApplyEffects(_, _, _, _)
ApplyEffects(chain, i, objects, s) ==
    IF i > Len(chain) THEN [sample |-> s, objects |-> objects]
    ELSE IF chain[i] = 0 THEN ApplyEffects(chain, i + 1, objects, s)
    ELSE ApplyEffects(chain, i + 1,
                      [objects EXCEPT ![chain[i]] = EffectAfterProcess(objects[chain[i]], s)],
                      EffectOutput(chain[i], objects[chain[i]], s))

\* getNextSample, lines 322-366: the envelope and the oscillators move; the
\* chain and the effect objects are not touched yet.
Synthesize ==
    /\ m_envelope' = EnvelopeAfter
    /\ IF EnvelopeAfter.level > 0
       THEN /\ m_lfoPhase' = IF FGt(m_frequency, 0)
                             THEN AdvancePhase(m_lfoPhase, m_lfoRateHz)
                             ELSE m_lfoPhase
            /\ m_primaryPhase' = AdvancePhase(m_primaryPhase, ModulatedFrequency)
            /\ m_secondaryPhase' = IF SecondarySounds
                                   THEN AdvancePhase(m_secondaryPhase, SecondaryFrequency)
                                   ELSE m_secondaryPhase
       ELSE UNCHANGED oscVars
    /\ UNCHANGED <<noteVars, paramVars, m_effects, m_lowPassActive,
                   m_lastLowPassCutoff, m_waveformTap>>

\* std::pair<float, float> AudioSystem::getNextSample(), lines 315-376.  No
\* tap is attached in the engine specifications, so line 372 does not run.
GetNextSample ==
    LET applied == ApplyEffects(m_effects, 1, heap, [amp |-> DrySample, fx |-> <<>>])
    IN  /\ Synthesize
        /\ heap' = applied.objects
        /\ out' = applied.sample

\* ---- effect chain ----------------------------------------------------------
\* void AudioSystem::addEffect(std::shared_ptr<IEffect> effect), lines 391-410.
AddEffectUnmarked(effect) ==
    IF effect = 0 \/ InChain(effect)
    THEN UNCHANGED engineState
    ELSE /\ m_effects' = Append(m_effects, effect)
         /\ UNCHANGED <<noteVars, oscVars, paramVars, heap, m_envelope, m_waveformTap,
                        m_lowPassActive, m_lastLowPassCutoff>>
AddEffect(effect) ==
    IF effect = 0 \/ InChain(effect)
    THEN UNCHANGED engineState
    ELSE /\ m_effects' = Append(m_effects, effect)
         /\ IF heap[effect].kind = "lowpass"
            THEN /\ m_lowPassActive' = TRUE
                 /\ m_lastLowPassCutoff' = heap[effect].m_cutoff
            ELSE UNCHANGED <<m_lowPassActive, m_lastLowPassCutoff>>
         /\ UNCHANGED <<noteVars, oscVars, paramVars, heap, m_envelope, m_waveformTap>>

\* The effect objects after resetEffects(), lines 413-422.
HeapAfterReset == [h \in Objects |-> IF InChain(h) THEN EffectReset(heap[h]) ELSE heap[h]]

\* void AudioSystem::resetEffects()
ResetEffects ==
    /\ heap' = HeapAfterReset
    /\ UNCHANGED <<noteVars, oscVars, paramVars, m_effects, m_lowPassActive,
                   m_lastLowPassCutoff, m_envelope, m_waveformTap>>

\* void AudioSystem::clearEffects(), lines 424-433.
ClearEffectsWithoutReset ==
    /\ m_effects' = <<>>
    /\ m_lowPassActive' = FALSE
    /\ m_lastLowPassCutoff' = 0
    /\ UNCHANGED <<noteVars, oscVars, paramVars, heap, m_envelope, m_waveformTap>>
ClearEffects ==
    /\ heap' = HeapAfterReset
    /\ m_effects' = <<>>
    /\ m_lowPassActive' = FALSE
    /\ m_lastLowPassCutoff' = 0
    /\ UNCHANGED <<noteVars, oscVars, paramVars, m_envelope, m_waveformTap>>

\* updateEffectParameters: the first effect of the chain that the name and
\* the class of the parameters both select, 0 if there is none.
FirstOfKind(kind) ==
    LET hits == {i \in 1 .. Len(m_effects) : heap[m_effects[i]].kind = kind}
    IN  IF hits = {} THEN 0 ELSE m_effects[CHOOSE i \in hits : \A j \in hits : i <= j]

\* void AudioSystem::setLowPassCutoff(float cutoffHz), lines 496-518.
SetLowPassCutoffOfFirst(cutoffHz) ==
    LET first == FirstOfKind("lowpass")
    IN  /\ heap' = [h \in Objects |->
                       IF h = first THEN LowPassSetCutoff(heap[h], cutoffHz) ELSE heap[h]]
        /\ m_lowPassActive' = (first # 0)
        /\ m_lastLowPassCutoff' = IF first # 0 THEN cutoffHz ELSE 0
        /\ UNCHANGED <<noteVars, oscVars, paramVars, m_effects, m_envelope, m_waveformTap>>
SetLowPassCutoff(cutoffHz) ==
    LET updated == \E h \in Objects : InChain(h) /\ heap[h].kind = "lowpass"
    IN  /\ heap' = [h \in Objects |->
                       IF InChain(h) /\ heap[h].kind = "lowpass"
                       THEN LowPassSetCutoff(heap[h], cutoffHz) ELSE heap[h]]
        /\ m_lowPassActive' = updated
        /\ m_lastLowPassCutoff' = IF updated THEN cutoffHz ELSE 0
        /\ UNCHANGED <<noteVars, oscVars, paramVars, m_effects, m_envelope, m_waveformTap>>

\* float AudioSystem::getLowPassCutoff() const, lines 520-523.
GetLowPassCutoff == IF m_lowPassActive THEN m_lastLowPassCutoff ELSE 0

\* bool AudioSystem::hasLowPassEffect() const, lines 525-528.
HasLowPassEffect == m_lowPassActive

\* toLowercase of the names used here.
ToLowercase(name) ==
    CASE name = "LPF" -> "lpf"
      [] name = "Echo" -> "echo"
      [] name = "SAW" -> "saw"
      [] OTHER -> name

\* configure / updateEffectParameters: the effect class a (lower-case) name
\* selects, "none" for an unrecognized name.
EffectKindOfName(lower) ==
    CASE lower = "octave" -> "octave"
      [] lower \in {"delay", "echo"} -> "delay"
      [] lower \in {"lowpass", "lpf", "filter"} -> "lowpass"
      [] OTHER -> "none"

\* configure, lines 182-194: the waveform a (lower-case) name selects.
ConfigWaveform(lower) ==
    CASE lower = "sine" -> "sine"
      [] lower \in {"sawtooth", "saw"} -> "saw"
      [] lower \in {"triangle", "tri"} -> "triangle"
      [] OTHER -> "square"

\* configure, lines 209-215: OctaveEffect(), DelayEffect(0.3f, 0.5f, 0.5f,
\* m_sampleRate), LowPassEffect(1000.0f, m_sampleRate) as constructed.
ConfiguredEffect(kind) ==
    CASE kind = "lowpass" ->
            [kind |-> "lowpass", m_sampleRate |-> Max(SampleRateHz, kMinSampleRate),
             m_cutoff |-> ClampValue(ConfigCutoffHz, kMinCutoff,
                                     MaxCutoff(Max(SampleRateHz, kMinSampleRate))),
             m_frequency |-> 0, m_higher |-> FALSE, m_blendPositive |-> FALSE,
             zeroed |-> TRUE]
      [] kind = "delay" ->
            [kind |-> "delay", m_sampleRate |-> Max(SampleRateHz, kMinSampleRate),
             m_cutoff |-> 0,
             m_delayTime |-> DelayClampTime(DefaultDelayMs),
             m_feedback |-> ClampValue(DefaultFeedback, 0, kMaxFeedback),
             m_mix |-> ClampValue(MixOne \div 2, 0, MixOne),
             m_frequency |-> 0, m_higher |-> FALSE, m_blendPositive |-> FALSE,
             zeroed |-> TRUE]
      [] OTHER ->
            [kind |-> "octave", m_sampleRate |-> DefaultEffectSampleRateHz,
             m_cutoff |-> 0,
             m_frequency |-> 0, m_higher |-> FALSE, m_blendPositive |-> TRUE,
             zeroed |-> TRUE]

\* configure, lines 204-220: the names of config.effects that name an effect.
RecognizedEffects(names) ==
    SelectSeq(names, LAMBDA n : EffectKindOfName(ToLowercase(n)) # "none")

\* void AudioSystem::configure(const AudioConfig& config), lines 177-232.
\* The objects of an earlier configure die with the vector that held them.
Configure(config) ==
    LET made == RecognizedEffects(config.effects)
        KindAt(i) == EffectKindOfName(ToLowercase(made[i]))
        lowPasses == {i \in 1 .. Len(made) : KindAt(i) = "lowpass"}
    IN  /\ m_primaryWaveform' = ConfigWaveform(ToLowercase(config.waveform))
        /\ m_secondaryWaveform' = m_primaryWaveform'
        /\ m_effects' = [i \in 1 .. Len(made) |-> NumHandles + i]
        /\ heap' = [h \in Objects |->
                       IF h \in Handles THEN heap[h]
                       ELSE IF h - NumHandles <= Len(made)
                       THEN ConfiguredEffect(KindAt(h - NumHandles))
                       ELSE FreeObject]
        /\ m_lowPassActive' = (lowPasses # {})
        /\ m_lastLowPassCutoff' = IF lowPasses = {} THEN 0
                                  ELSE ConfiguredEffect("lowpass").m_cutoff
        /\ m_envelope' = ADSREnvelope(config.attackTime, config.decayTime,
                                      config.sustainLevel, config.releaseTime)
        /\ UNCHANGED <<noteVars, oscVars, m_waveformTap,
                       m_lfoRateHz, m_lfoAmountCents, m_noteJitterAmountCents,
                       m_secondaryEnabled, m_secondaryMix, m_secondaryDetuneCents,
                       m_secondaryOctaveOffset, m_pitchBendCents>>

\* bool AudioSystem::updateEffectParameters(effectName, parameters), lines
\* 435-476.  parameters: [class, cutoffFreq, octaveShift, mix, delayTime,
\* feedback], class being the dynamic type of the IEffectParameters; the
\* resonance of a LowPassEffect is not part of the effect objects of the
\* model.  UpdateTarget is the effect the loop stops at, 0 (the call returns
\* false) if it runs to the end.
UpdateTargetOfAnyClass(effectName, parameters) ==
    FirstOfKind(EffectKindOfName(ToLowercase(effectName)))
UpdateTarget(effectName, parameters) ==
    LET kind == EffectKindOfName(ToLowercase(effectName))
    IN  IF kind # "none" /\ kind = parameters.class THEN FirstOfKind(kind) ELSE 0

UpdateEffectParameters(effectName, parameters) ==
    LET kind == EffectKindOfName(ToLowercase(effectName))
        target == UpdateTarget(effectName, parameters)
    IN  IF target = 0
        THEN UNCHANGED engineState
        ELSE /\ heap' = [heap EXCEPT ![target] =
                            CASE kind = "lowpass" ->
                                    LowPassSetCutoff(heap[target], parameters.cutoffFreq)
                              [] kind = "octave" ->
                                    [heap[target] EXCEPT
                                        !.m_higher = parameters.octaveShift > 1,
                                        !.m_blendPositive = parameters.mix > 0]
                              [] OTHER ->
                                    [heap[target] EXCEPT
                                        !.m_delayTime = DelayClampTime(parameters.delayTime),
                                        !.m_feedback =
                                            ClampValue(parameters.feedback, 0, kMaxFeedback),
                                        !.m_mix = ClampValue(parameters.mix, 0, MixOne)]]
             /\ IF kind = "lowpass"
                THEN /\ m_lowPassActive' = TRUE
                     /\ m_lastLowPassCutoff' = parameters.cutoffFreq
                ELSE UNCHANGED <<m_lowPassActive, m_lastLowPassCutoff>>
             /\ UNCHANGED <<noteVars, oscVars, paramVars, m_effects, m_envelope,
                            m_waveformTap>>

\* ---- parameters ------------------------------------------------------------
\* void AudioSystem::setWaveform(std::shared_ptr<IWave> waveform), lines
\* 168-174; "null" is the null pointer.
SetWaveform(waveform) ==
    IF waveform = "null"
    THEN UNCHANGED engineState
    ELSE /\ m_primaryWaveform' = waveform
         /\ m_secondaryWaveform' = waveform
         /\ UNCHANGED <<noteVars, oscVars, fxVars, m_envelope, m_waveformTap,
                        m_lfoRateHz, m_lfoAmountCents, m_noteJitterAmountCents,
                        m_secondaryEnabled, m_secondaryMix, m_secondaryDetuneCents,
                        m_secondaryOctaveOffset, m_pitchBendCents>>

\* void AudioSystem::setSecondaryWaveform(std::shared_ptr<IWave> waveform),
\* lines 547-553.
SetSecondaryWaveform(waveform) ==
    IF waveform = "null"
    THEN UNCHANGED engineState
    ELSE /\ m_secondaryWaveform' = waveform
         /\ UNCHANGED <<noteVars, oscVars, fxVars, m_envelope, m_waveformTap,
                        m_primaryWaveform,
                        m_lfoRateHz, m_lfoAmountCents, m_noteJitterAmountCents,
                        m_secondaryEnabled, m_secondaryMix, m_secondaryDetuneCents,
                        m_secondaryOctaveOffset, m_pitchBendCents>>

\* void AudioSystem::updateADSRParameters(...), lines 478-482: a new envelope
\* object replaces the old one.
UpdateADSRParameters(attackTime, decayTime, sustainLevel, releaseTime) ==
    /\ m_envelope' = ADSREnvelope(attackTime, decayTime, sustainLevel, releaseTime)
    /\ UNCHANGED <<noteVars, oscVars, paramVars, fxVars, m_waveformTap>>

\* void AudioSystem::setDriftParameters(...), lines 484-489.
SetDriftParameters(rateHz, amountCents, jitterCents) ==
    /\ m_lfoRateHz' = Max(rateHz, 0)
    /\ m_lfoAmountCents' = Max(amountCents, 0)
    /\ m_noteJitterAmountCents' = Max(jitterCents, 0)
    /\ UNCHANGED <<noteVars, oscVars, fxVars, m_envelope, m_waveformTap,
                   m_primaryWaveform, m_secondaryWaveform,
                   m_secondaryEnabled, m_secondaryMix, m_secondaryDetuneCents,
                   m_secondaryOctaveOffset, m_pitchBendCents>>

\* void AudioSystem::configureSecondaryOscillator(...), lines 530-545.
ConfigureSecondaryOscillatorKeepingMix(enabled, mix, detuneCents, octaveOffset) ==
    /\ m_secondaryEnabled' = enabled
    /\ IF ~enabled
       THEN /\ m_secondaryPhase' = 0
            /\ UNCHANGED <<m_secondaryMix, m_secondaryDetuneCents, m_secondaryOctaveOffset>>
       ELSE /\ m_secondaryMix' = Max(0, Min(MixOne, mix))
            /\ m_secondaryDetuneCents' = Max(detuneCents, 0)
            /\ m_secondaryOctaveOffset' = Max(0 - 2, Min(2, octaveOffset))
            /\ UNCHANGED m_secondaryPhase
    /\ UNCHANGED <<noteVars, m_primaryPhase, m_lfoPhase, fxVars, m_envelope,
                   m_waveformTap, m_primaryWaveform, m_secondaryWaveform,
                   m_lfoRateHz, m_lfoAmountCents, m_noteJitterAmountCents,
                   m_pitchBendCents>>
ConfigureSecondaryOscillator(enabled, mix, detuneCents, octaveOffset) ==
    /\ m_secondaryEnabled' = enabled
    /\ IF ~enabled
       THEN /\ m_secondaryMix' = 0
            /\ m_secondaryDetuneCents' = 0
            /\ m_secondaryOctaveOffset' = 0
            /\ m_secondaryPhase' = 0
       ELSE /\ m_secondaryMix' = Max(0, Min(MixOne, mix))
            /\ m_secondaryDetuneCents' = Max(detuneCents, 0)
            /\ m_secondaryOctaveOffset' = Max(0 - 2, Min(2, octaveOffset))
            /\ UNCHANGED m_secondaryPhase
    /\ UNCHANGED <<noteVars, m_primaryPhase, m_lfoPhase, fxVars, m_envelope,
                   m_waveformTap, m_primaryWaveform, m_secondaryWaveform,
                   m_lfoRateHz, m_lfoAmountCents, m_noteJitterAmountCents,
                   m_pitchBendCents>>

\* void AudioSystem::setPitchBend(int value), lines 555-571: the cents kept
\* as the fraction 100 * clamped / 8191 (or / 8192 below zero).
SetPitchBendOneDivisor(value) ==
    LET clamped == Max(0 - 8192, Min(8191, value))
    IN  /\ m_pitchBendCents' = [num |-> 100 * clamped, den |-> 8192]
        /\ UNCHANGED <<noteVars, oscVars, fxVars, m_envelope, m_waveformTap,
                       m_primaryWaveform, m_secondaryWaveform,
                       m_lfoRateHz, m_lfoAmountCents, m_noteJitterAmountCents,
                       m_secondaryEnabled, m_secondaryMix, m_secondaryDetuneCents,
                       m_secondaryOctaveOffset>>
SetPitchBend(value) ==
    LET clamped == Max(0 - 8192, Min(8191, value))
    IN  /\ m_pitchBendCents' = [num |-> 100 * clamped,
                                den |-> IF clamped >= 0 THEN 8191 ELSE 8192]
        /\ UNCHANGED <<noteVars, oscVars, fxVars, m_envelope, m_waveformTap,
                       m_primaryWaveform, m_secondaryWaveform,
                       m_lfoRateHz, m_lfoAmountCents, m_noteJitterAmountCents,
                       m_secondaryEnabled, m_secondaryMix, m_secondaryDetuneCents,
                       m_secondaryOctaveOffset>>

\* ---- Spec: the engine driven by whole calls on one thread -----------------
MaxCalls == 3      \* most AudioSystem calls in one behaviour

NoteA == 50 * FreqPerHz                  \* a note of 50 Hz
TopFrequency == MaxValidHz * FreqPerHz   \* 20000 Hz, the largest accepted

\* Arguments of triggerNote: NaN, below and at zero, two notes, above range.
TriggerFrequencies ==
    {NaN, 0 - FreqPerHz, 0, NoteA, TopFrequency, TopFrequency + FreqPerHz}

\* Arguments of triggerNoteOff: omitted (NaN), a note, a frequency within the
\* tolerance of it, one just outside, and the largest note.
OffFrequencies == {NaN, NoteA, NoteA + 1, NoteA + 2, TopFrequency}

\* (attack, decay, sustain, release) of updateADSRParameters.
ADSRChoices == {<<1, 1, LevelMax \div 2, 2>>, <<0 - 1, 0, LevelMax + 1, 0>>}

\* (rateHz, amountCents, jitterCents) of setDriftParameters.
DriftChoices == {<<0 - 1, 0 - 1, 0 - 1>>, <<NoteA, 4, 1>>}

\* (enabled, mix, detuneCents, octaveOffset) of configureSecondaryOscillator.
SecondaryChoices == {<<FALSE, MixOne, 7, 1>>, <<TRUE, MixOne + 1, 0 - 7, 3>>,
                     <<TRUE, 1, 7, 0 - 1>>}

BendChoices == {0 - 9000, 0, 8191}
WaveformChoices == {"null", "sine", "saw", "triangle", "square"}
CutoffChoices == {10, 30, 5000}

\* The caller's record of a call that is neither triggerNote nor triggerNoteOff.
Called(op) == [op |-> op, f |-> 0, had |-> FALSE, hit |-> FALSE, pair |-> FALSE]

\* One more call is made; the buffers of the other specifications stay put.
Counted ==
    /\ calls < MaxCalls
    /\ calls' = calls + 1
    /\ UNCHANGED <<ringVars, concVars, threadVars, probeVars, unitVars>>

\* A parameter or effect call, which returns no sample.
Control(op) == Counted /\ last' = Called(op) /\ UNCHANGED out

CallTriggerNote ==
    \E f \in TriggerFrequencies, detune \in DetuneChoices(m_noteJitterAmountCents),
       lfoPhase \in LfoPhaseChoices :
        /\ TriggerNote(f, detune, lfoPhase)
        /\ last' = [op |-> "triggerNote", f |-> f, had |-> m_activeNotes # <<>>,
                    hit |-> FALSE, pair |-> FALSE]
        /\ UNCHANGED out
        /\ Counted

CallTriggerNoteOff ==
    \E f \in OffFrequencies :
        /\ TriggerNoteOff(f)
        /\ last' = [op |-> "triggerNoteOff", f |-> f, had |-> m_activeNotes # <<>>,
                    hit |-> LastMatchIndex(m_activeNotes, f) # 0,
                    pair |-> /\ last.op = "triggerNote"
                             /\ ~last.had
                             /\ last.f = f]
        /\ UNCHANGED out
        /\ Counted

CallGetNextSample ==
    /\ GetNextSample
    /\ last' = Called("getNextSample")
    /\ Counted

CallAddEffect == \E h \in 0 .. NumHandles : AddEffect(h) /\ Control("addEffect")
CallResetEffects == ResetEffects /\ Control("resetEffects")
CallClearEffects == ClearEffects /\ Control("clearEffects")
CallSetLowPassCutoff ==
    \E hz \in CutoffChoices : SetLowPassCutoff(hz) /\ Control("setLowPassCutoff")
CallSetWaveform == \E w \in WaveformChoices : SetWaveform(w) /\ Control("setWaveform")
CallUpdateADSRParameters ==
    \E p \in ADSRChoices :
        UpdateADSRParameters(p[1], p[2], p[3], p[4]) /\ Control("updateADSRParameters")
CallSetDriftParameters ==
    \E p \in DriftChoices :
        SetDriftParameters(p[1], p[2], p[3]) /\ Control("setDriftParameters")
CallConfigureSecondaryOscillator ==
    \E p \in SecondaryChoices :
        /\ ConfigureSecondaryOscillator(p[1], p[2], p[3], p[4])
        /\ Control("configureSecondaryOscillator")
CallSetPitchBend == \E v \in BendChoices : SetPitchBend(v) /\ Control("setPitchBend")

\* The tap ring buffer of the engine specifications: never attached, empty.
Init == EngineInit /\ RingInit(1) /\ RingCallerInit /\ ConcInit /\ UnitInit

Next ==
    \/ CallTriggerNote
    \/ CallTriggerNoteOff
    \/ CallGetNextSample
    \/ CallAddEffect
    \/ CallResetEffects
    \/ CallClearEffects
    \/ CallSetLowPassCutoff
    \/ CallSetWaveform
    \/ CallUpdateADSRParameters
    \/ CallSetDriftParameters
    \/ CallConfigureSecondaryOscillator
    \/ CallSetPitchBend

Spec == Init /\ [][Next]_vars

\* ---- properties of the note stack, under Spec ------------------------------
\* A frequency argument the caller supplied (not the omitted one, NaN).
Supplied(f) == ~IsNaN(f)

\* |a - f| < 1e-3 Hz, in the units of the model.
Within(a, f) == Supplied(a) /\ Supplied(f) /\ a - f \in {0 - 1, 0, 1}

\* Some active note matches f.
SomeNoteWithin(notes, f) == \E i \in 1 .. Len(notes) : Within(notes[i].frequency, f)

\* notes without its entry i, the others in their order.
Without(notes, i) == SubSeq(notes, 1, i - 1) \o SubSeq(notes, i + 1, Len(notes))

\* C5: in every reachable state of the engine, whatever calls led to it
\* (triggerNote, triggerNoteOff with or without a frequency, getNextSample,
\* the parameter and effect calls): if active_notes is empty, note_on is false.
C5_EmptyImpliesNoteOff == m_activeNotes = <<>> => ~m_noteOn

\* C5's case: a note was triggered, a sample drawn (the envelope is in its
\* attack), and the note released, so the list is empty again.
C5_Witness ==
    /\ last.op = "triggerNoteOff"
    /\ last.hit
    /\ m_envelope.state = "Attack"
    /\ m_activeNotes = <<>>
    /\ ~m_noteOn

\* C6: last-note priority.  Whenever active_notes is non-empty, the current
\* frequency and the current note detune are those of its last entry.
C6_LastNotePriority ==
    m_activeNotes # <<>> =>
        /\ m_frequency = m_activeNotes[Len(m_activeNotes)].frequency
        /\ m_noteDetuneCents = m_activeNotes[Len(m_activeNotes)].detuneCents

\* C6's case: 50 Hz then 20000 Hz were triggered and 20000 Hz released; the
\* 50 Hz note, still held, is current again.
C6_Witness ==
    /\ last.op = "triggerNoteOff"
    /\ last.f = TopFrequency
    /\ last.hit
    /\ Len(m_activeNotes) = 1
    /\ m_frequency = NoteA
    /\ m_noteOn

C8_TriggerThenOff ==
    (/\ last.op = "triggerNoteOff"
     /\ last.pair
     /\ Supplied(last.f)
     /\ last.f > 0
     /\ last.f <= MaxValidHz * FreqPerHz)
        => (m_activeNotes = <<>> /\ ~m_noteOn)

\* C8's case: the pair of calls was made with f = 20000 Hz.
C8_Witness ==
    /\ last.op = "triggerNoteOff"
    /\ last.pair
    /\ last.f = TopFrequency
    /\ m_frequency = TopFrequency
    /\ m_activeNotes = <<>>
    /\ ~m_noteOn

\* C9: triggerNoteOff(f) when no active note matches f changes nothing:
\* active_notes, note_on, the current frequency and detune, the phases and
\* the envelope stay as they were, whether the list is empty or not.
C9_NoteOffWithoutMatchIsNoOp ==
    [][(/\ last'.op = "triggerNoteOff"
        /\ Supplied(last'.f)
        /\ ~SomeNoteWithin(m_activeNotes, last'.f))
       => UNCHANGED <<m_activeNotes, m_noteOn, m_frequency, m_noteDetuneCents,
                      m_primaryPhase, m_secondaryPhase, m_lfoPhase, m_envelope>>]_vars

\* C9's case: 50 Hz is held and sounding (a sample was drawn) when a
\* frequency just outside the tolerance is released.
C9_Witness ==
    /\ last.op = "triggerNoteOff"
    /\ last.f = NoteA + 2
    /\ ~last.hit
    /\ Len(m_activeNotes) = 1
    /\ m_activeNotes[1].frequency = NoteA
    /\ m_noteOn
    /\ m_primaryPhase # 0

\* C10: triggerNote(f) with f <= 0 or f > 20000 is ignored: active_notes,
\* note_on, the current frequency and detune, the oscillator and LFO phases,
\* the envelope and every effect stay as they were.
C10_InvalidTriggerIgnored ==
    [][(/\ last'.op = "triggerNote"
        /\ Supplied(last'.f)
        /\ (last'.f <= 0 \/ last'.f > MaxValidHz * FreqPerHz))
       => UNCHANGED <<m_activeNotes, m_noteOn, m_frequency, m_noteDetuneCents,
                      m_primaryPhase, m_secondaryPhase, m_lfoPhase, m_envelope,
                      m_effects, heap>>]_vars

\* C10's case: with a note held and an effect in the chain, triggerNote is
\* called with 20001 Hz.
C10_Witness ==
    /\ last.op = "triggerNote"
    /\ last.f = TopFrequency + FreqPerHz
    /\ last.had
    /\ m_activeNotes # <<>>
    /\ m_effects # <<>>

\* ---- SpecThreads: three threads entering and leaving AudioSystem calls -----
\* AudioSystem, AudioDevice::audioCallback, AudioSystemWrapper and
\* AudioSystemAdapter hold no mutex and no atomic: a call takes effect on the
\* shared engine somewhere between its entry and its return, and nothing
\* keeps another thread out meanwhile.  Each call is an entry step and a
\* return step; the loop of applyEffects is one step per effect.

NoteCalls == {"triggerNote", "triggerNoteOff"}
ChainCalls == {"addEffect", "clearEffects"}

\* The calls the threads make here, with their arguments.
UiCalls ==
    {<<"triggerNote", NoteA>>, <<"triggerNoteOff", NoteA>>, <<"clearEffects", 0>>}
        \cup {<<"addEffect", h>> : h \in Handles}
MidiCalls == {<<"triggerNote", NoteA>>, <<"triggerNoteOff", NoteA>>, <<"triggerNoteOff", NaN>>}

\* One more call is entered; the ring buffers of the other specifications
\* stay put.
Entered ==
    /\ calls < MaxCalls
    /\ calls' = calls + 1
    /\ UNCHANGED <<ringVars, concVars, probeVars, unitVars>>

\* AudioDevice::audioCallback, line 75: getNextSample runs up to the call of
\* applyEffects (AudioSystem lines 315-369).
A_Enter ==
    /\ a_pc = "idle"
    /\ Entered
    /\ Synthesize
    /\ a_pc' = "applyEffects"
    /\ a_i' = 1
    /\ a_sample' = [amp |-> DrySample, fx |-> <<>>]
    /\ a_raced' = FALSE
    /\ UNCHANGED <<heap, last, out, u_pc, u_arg, u_raced, k_pc, k_arg, k_raced>>

\* applyEffects, lines 381-386: one turn of the loop.  After the vector was
\* modified under the loop its iterators are invalid: the turn may then reach
\* any effect object, or end the loop (here after NumHandles turns at most).
A_Process ==
    /\ a_pc = "applyEffects"
    /\ \E h \in Handles :
          /\ IF a_raced THEN a_i <= NumHandles
                        ELSE a_i <= Len(m_effects) /\ h = m_effects[a_i]
          /\ heap' = [heap EXCEPT ![h] = EffectAfterProcess(heap[h], a_sample)]
          /\ a_sample' = EffectOutput(h, heap[h], a_sample)
    /\ a_i' = a_i + 1
    /\ UNCHANGED <<noteVars, oscVars, paramVars, m_effects, m_lowPassActive,
                   m_lastLowPassCutoff, m_envelope, m_waveformTap, last, out, calls,
                   a_pc, a_raced, u_pc, u_arg, u_raced, k_pc, k_arg, k_raced,
                   ringVars, concVars, probeVars, unitVars>>

\* applyEffects returns and getNextSample with it, lines 388 and 375.
A_Leave ==
    /\ a_pc = "applyEffects"
    /\ a_raced \/ a_i > Len(m_effects)
    /\ a_pc' = "idle"
    /\ out' = a_sample
    /\ last' = Called("getNextSample")
    /\ UNCHANGED <<engineState, calls, a_i, a_sample, a_raced,
                   u_pc, u_arg, u_raced, k_pc, k_arg, k_raced, ringVars, concVars, probeVars, unitVars>>

\* What a call does to the engine when it runs alone (raced = FALSE); a note
\* call that overlapped another may also lose its update of the note stack.
Perform(op, arg, raced) ==
    CASE op = "triggerNote" ->
            \/ \E detune \in DetuneChoices(m_noteJitterAmountCents),
                  lfoPhase \in LfoPhaseChoices : TriggerNote(arg, detune, lfoPhase)
            \/ raced /\ UNCHANGED engineState
      [] op = "triggerNoteOff" ->
            \/ TriggerNoteOff(arg)
            \/ raced /\ UNCHANGED engineState
      [] op = "addEffect" -> AddEffect(arg)
      [] OTHER -> ClearEffects

\* The loop of applyEffects is running and this step changed the vector.
RacesLoop == a_pc = "applyEffects" /\ m_effects' # m_effects

\* AudioSystemWrapper::TriggerNote / TriggerNoteOff / Add*Effect /
\* ClearEffects on the UI thread: the AudioSystem call is entered.
U_Enter ==
    /\ u_pc = "idle"
    /\ Entered
    /\ \E c \in UiCalls : u_pc' = c[1] /\ u_arg' = c[2]
    /\ u_raced' = (u_pc' \in NoteCalls /\ k_pc \in NoteCalls)
    /\ k_raced' = (k_raced \/ u_raced')
    /\ UNCHANGED <<engineState, last, out, a_pc, a_i, a_sample, a_raced, k_pc, k_arg>>

\* The call of the UI thread takes effect and returns.
U_Leave ==
    /\ u_pc # "idle"
    /\ Perform(u_pc, u_arg, u_raced)
    /\ last' = [Called(u_pc) EXCEPT !.f = u_arg]
    /\ a_raced' = (a_raced \/ RacesLoop)
    /\ u_pc' = "idle"
    /\ u_raced' = FALSE
    /\ UNCHANGED <<out, calls, a_pc, a_i, a_sample, u_arg, k_pc, k_arg, k_raced,
                   ringVars, concVars, probeVars, unitVars>>

\* The MIDI input thread delivers a NOTE_ON or NOTE_OFF event:
\* AudioSystemAdapter::update enters triggerNote or triggerNoteOff.
K_Enter ==
    /\ k_pc = "idle"
    /\ Entered
    /\ \E c \in MidiCalls : k_pc' = c[1] /\ k_arg' = c[2]
    /\ k_raced' = (u_pc \in NoteCalls)
    /\ u_raced' = (u_raced \/ k_raced')
    /\ UNCHANGED <<engineState, last, out, a_pc, a_i, a_sample, a_raced, u_pc, u_arg>>

\* The call of the MIDI thread takes effect and returns.
K_Leave ==
    /\ k_pc # "idle"
    /\ Perform(k_pc, k_arg, k_raced)
    /\ last' = [Called(k_pc) EXCEPT !.f = k_arg]
    /\ k_pc' = "idle"
    /\ k_raced' = FALSE
    /\ UNCHANGED <<out, calls, a_pc, a_i, a_sample, a_raced, u_pc, u_arg, u_raced, k_arg,
                   ringVars, concVars, probeVars, unitVars>>

AudioThread == A_Enter \/ A_Process \/ A_Leave
UiThread == U_Enter \/ U_Leave
MidiThread == K_Enter \/ K_Leave

NextThreads == AudioThread \/ UiThread \/ MidiThread

SpecThreads == Init /\ [][NextThreads]_vars

\* C3: effect-chain mutation and the audio callback's use of the chain are
\* mutually exclusive: the control thread is never inside addEffect or
\* clearEffects while the audio thread is inside getNextSample iterating the
\* chain, with an effect of it still to process.
C3_ChainMutationExcludesCallback ==
    ~(u_pc \in ChainCalls /\ a_pc = "applyEffects" /\ a_i <= Len(m_effects))

\* C4: calls of triggerNote / triggerNoteOff from the UI thread and from the
\* MIDI thread are serialized: two of them never overlap.
C4_NoteCallsSerialized == ~(u_pc \in NoteCalls /\ k_pc \in NoteCalls)

\* ---- SpecRing: pushes and copies as whole calls ----------------------
InitRing ==
    /\ \E c \in 0 .. MaxCap : RingInit(c)
    /\ RingCallerInit
    /\ ConcInit
    /\ EngineInit
    /\ UnitInit

\* The producer calls push with the next frame.
RingPush ==
    /\ Len(pushed) < MaxPush
    /\ Push(Frame(Len(pushed) + 1)[1], Frame(Len(pushed) + 1)[2])
    /\ pushed' = Append(pushed, Frame(Len(pushed) + 1))
    /\ ringLast' = [op |-> "push", maxFrames |-> 0, hasDest |-> TRUE]
    /\ UNCHANGED <<dest, copied>>
    /\ UNCHANGED <<concVars, engVars>>

\* The consumer calls copyLatestInterleaved.
RingCopy ==
    \E hasDest \in BOOLEAN, maxFrames \in 0 .. MaxFrames :
        /\ CopyLatestInterleaved(hasDest, maxFrames)
        /\ ringLast' = [op |-> "copy", maxFrames |-> maxFrames, hasDest |-> hasDest]
        /\ UNCHANGED pushed
        /\ UNCHANGED <<concVars, engVars>>

NextRing == RingPush \/ RingCopy

SpecRing == InitRing /\ [][NextRing]_vars

\* ---- C1 ----------------------------------------------------------------
\* The n most recently pushed frames, oldest first, interleaved L,R.
LatestInterleaved(n) ==
    [j \in 1 .. (2 * n) |-> pushed[Len(pushed) - n + ((j - 1) \div 2) + 1][((j - 1) % 2) + 1]]

\* C1: with no push running concurrently, after M >= 0 pushes on a buffer of
\* capacity C, copy_latest_interleaved(dest, k) with k >= 1 returns
\* n = min(k, M, C) and the first 2n entries of dest are exactly the n most
\* recently pushed (L,R) pairs, oldest first, interleaved.
C1_CopyLatestReturnsMostRecent ==
    (ringLast.op = "copy" /\ ringLast.hasDest /\ ringLast.maxFrames >= 1) =>
        LET n == Min(ringLast.maxFrames, Min(Len(pushed), m_capacityFrames))
        IN  /\ copied = n
            /\ Len(dest) >= 2 * n
            /\ SubSeq(dest, 1, 2 * n) = LatestInterleaved(n)

\* A copy of as many frames as the capacity holds, after the buffer wrapped.
C1_Witness ==
    /\ ringLast.op = "copy" /\ ringLast.hasDest
    /\ m_capacityFrames = 3
    /\ Len(pushed) = 5
    /\ ringLast.maxFrames = 4
    /\ copied = 3
    /\ dest = <<3, -3, 4, -4, 5, -5>>

\* =====================================================================
\* StereoSampleRingBuffer, one producer and one consumer, interleaved at
\* single loads and stores (sequentially consistent interleaving)
\* =====================================================================

\* ---- producer: push(left, right), StereoSampleRingBuffer.h:34-47
\* line 35: frameIndex = m_writeIndex.load(relaxed)
P_Load(left, right) ==
    /\ p_pc = "idle"
    /\ Len(pushed) < MaxConcPush
    /\ p_pc' = "loaded"
    /\ p_frameIndex' = m_writeIndex
    /\ p_frame' = <<left, right>>
    /\ p_counted' = FALSE
    /\ pushed' = Append(pushed, <<left, right>>)
    /\ UNCHANGED <<m_capacityFrames, m_buffer, m_writeIndex, m_totalFramesWritten,
                   dest, copied, ringLast>>
    /\ UNCHANGED <<c_pc, c_maxFrames, c_framesToCopy, c_startFrame, c_i, c_snap, c_overlap>>
    /\ UNCHANGED engVars

\* A buffer store of the producer is counted once per push while the
\* consumer is between its write-index load and its return.
CountOverlap ==
    IF c_pc \in {"copyL", "copyR"} /\ ~p_counted
    THEN /\ c_overlap' = c_overlap + 1
         /\ p_counted' = TRUE
    ELSE UNCHANGED <<c_overlap, p_counted>>

\* line 37: m_buffer[sampleIndex] = left
P_WriteLeft ==
    /\ p_pc = "loaded"
    /\ p_pc' = "wroteL"
    /\ m_buffer' = [m_buffer EXCEPT ![2 * p_frameIndex] = p_frame[1]]
    /\ CountOverlap
    /\ UNCHANGED <<m_capacityFrames, m_writeIndex, m_totalFramesWritten,
                   pushed, dest, copied, ringLast>>
    /\ UNCHANGED <<p_frameIndex, p_frame>>
    /\ UNCHANGED <<c_pc, c_maxFrames, c_framesToCopy, c_startFrame, c_i, c_snap>>
    /\ UNCHANGED engVars

\* line 38: m_buffer[sampleIndex + 1] = right
P_WriteRight ==
    /\ p_pc = "wroteL"
    /\ p_pc' = "wroteR"
    /\ m_buffer' = [m_buffer EXCEPT ![2 * p_frameIndex + 1] = p_frame[2]]
    /\ CountOverlap
    /\ UNCHANGED <<m_capacityFrames, m_writeIndex, m_totalFramesWritten,
                   pushed, dest, copied, ringLast>>
    /\ UNCHANGED <<p_frameIndex, p_frame>>
    /\ UNCHANGED <<c_pc, c_maxFrames, c_framesToCopy, c_startFrame, c_i, c_snap>>
    /\ UNCHANGED engVars

\* lines 40-45: m_writeIndex.store(next frameIndex, release)
P_StoreIndex ==
    /\ p_pc = "wroteR"
    /\ p_pc' = "stored"
    /\ m_writeIndex' = NextWriteIndex(p_frameIndex, m_capacityFrames)
    /\ UNCHANGED <<m_capacityFrames, m_buffer, m_totalFramesWritten,
                   pushed, dest, copied, ringLast>>
    /\ UNCHANGED <<p_frameIndex, p_frame, p_counted>>
    /\ UNCHANGED <<c_pc, c_maxFrames, c_framesToCopy, c_startFrame, c_i, c_snap, c_overlap>>
    /\ UNCHANGED engVars

\* line 46: m_totalFramesWritten.fetch_add(1, release); return
P_FetchAdd ==
    /\ p_pc = "stored"
    /\ p_pc' = "idle"
    /\ m_totalFramesWritten' = m_totalFramesWritten + 1
    /\ UNCHANGED <<m_capacityFrames, m_buffer, m_writeIndex,
                   pushed, dest, copied, ringLast>>
    /\ UNCHANGED <<p_frameIndex, p_frame, p_counted>>
    /\ UNCHANGED <<c_pc, c_maxFrames, c_framesToCopy, c_startFrame, c_i, c_snap, c_overlap>>
    /\ UNCHANGED engVars

\* Number of pushes whose write-index store has been performed.
IndexStores == m_totalFramesWritten + (IF p_pc = "stored" THEN 1 ELSE 0)

\* ---- consumer: copyLatestInterleaved(dest, maxFrames), lines 64-92
\* lines 65-67: the call, on a fresh zeroed dest of 2*maxFrames floats;
\* a null dest or maxFrames == 0 returns 0 at once.
C_Call(hasDest, maxFrames) ==
    /\ c_pc = "idle"
    /\ c_maxFrames' = maxFrames
    /\ dest' = [j \in 1 .. (2 * maxFrames) |-> 0]
    /\ ringLast' = [op |-> "copying", maxFrames |-> maxFrames, hasDest |-> hasDest]
    /\ c_framesToCopy' = 0
    /\ c_startFrame' = 0
    /\ c_i' = 0
    /\ c_snap' = 0
    /\ c_overlap' = 0
    /\ IF ~hasDest \/ maxFrames = 0
       THEN /\ c_pc' = "idle"
            /\ copied' = 0
       ELSE /\ c_pc' = "avail"
            /\ UNCHANGED copied
    /\ UNCHANGED <<m_capacityFrames, m_buffer, m_writeIndex, m_totalFramesWritten, pushed>>
    /\ UNCHANGED <<p_pc, p_frameIndex, p_frame, p_counted>>
    /\ UNCHANGED engVars

\* lines 69-73: available = availableFrames() (acquire load of the total);
\* framesToCopy = min(maxFrames, available); 0 returns 0.
C_Available ==
    /\ c_pc = "avail"
    /\ LET n == Min(c_maxFrames, AvailableFrames(m_totalFramesWritten, m_capacityFrames))
       IN  /\ c_framesToCopy' = n
           /\ IF n = 0
              THEN /\ c_pc' = "idle"
                   /\ copied' = 0
                   /\ ringLast' = [ringLast EXCEPT !.op = "copy"]
              ELSE /\ c_pc' = "loadIndex"
                   /\ UNCHANGED <<copied, ringLast>>
    /\ UNCHANGED <<m_capacityFrames, m_buffer, m_writeIndex, m_totalFramesWritten,
                   pushed, dest>>
    /\ UNCHANGED <<p_pc, p_frameIndex, p_frame, p_counted>>
    /\ UNCHANGED <<c_maxFrames, c_startFrame, c_i, c_snap, c_overlap>>
    /\ UNCHANGED engVars

\* lines 75-79: writeIndex = m_writeIndex.load(acquire); startFrame
C_LoadIndex ==
    /\ c_pc = "loadIndex"
    /\ c_pc' = "copyL"
    /\ c_startFrame' = StartFrame(m_writeIndex, m_capacityFrames, c_framesToCopy)
    /\ c_i' = 0
    /\ c_snap' = IndexStores
    /\ c_overlap' = IF p_pc \in {"wroteL", "wroteR"} THEN 1 ELSE 0
    /\ p_counted' = (p_pc \in {"wroteL", "wroteR"})
    /\ UNCHANGED ringVars
    /\ UNCHANGED <<p_pc, p_frameIndex, p_frame>>
    /\ UNCHANGED <<c_maxFrames, c_framesToCopy>>
    /\ UNCHANGED engVars

\* line 87: dest[i*2] = m_buffer[sampleIndex]
C_CopyLeft ==
    /\ c_pc = "copyL"
    /\ c_pc' = "copyR"
    /\ dest' = [dest EXCEPT ![2 * c_i + 1] =
                  m_buffer[2 * FrameIndexAt(c_startFrame, c_i, m_capacityFrames)]]
    /\ UNCHANGED <<m_capacityFrames, m_buffer, m_writeIndex, m_totalFramesWritten,
                   pushed, copied, ringLast>>
    /\ UNCHANGED <<p_pc, p_frameIndex, p_frame, p_counted>>
    /\ UNCHANGED <<c_maxFrames, c_framesToCopy, c_startFrame, c_i, c_snap, c_overlap>>
    /\ UNCHANGED engVars

\* lines 88, 81, 91: dest[i*2+1] = m_buffer[sampleIndex+1]; ++i; after the
\* last frame, return framesToCopy.
C_CopyRight ==
    /\ c_pc = "copyR"
    /\ dest' = [dest EXCEPT ![2 * c_i + 2] =
                  m_buffer[2 * FrameIndexAt(c_startFrame, c_i, m_capacityFrames) + 1]]
    /\ c_i' = c_i + 1
    /\ IF c_i + 1 < c_framesToCopy
       THEN /\ c_pc' = "copyL"
            /\ UNCHANGED <<copied, ringLast>>
       ELSE /\ c_pc' = "idle"
            /\ copied' = c_framesToCopy
            /\ ringLast' = [ringLast EXCEPT !.op = "copy"]
    /\ UNCHANGED <<m_capacityFrames, m_buffer, m_writeIndex, m_totalFramesWritten, pushed>>
    /\ UNCHANGED <<p_pc, p_frameIndex, p_frame, p_counted>>
    /\ UNCHANGED <<c_maxFrames, c_framesToCopy, c_startFrame, c_snap, c_overlap>>
    /\ UNCHANGED engVars

InitRingConc ==
    /\ \E c \in 1 .. MaxConcCap : RingInit(c)
    /\ RingCallerInit
    /\ ConcInit
    /\ EngineInit
    /\ UnitInit

ProducerStep ==
    \/ P_Load(Frame(Len(pushed) + 1)[1], Frame(Len(pushed) + 1)[2])
    \/ P_WriteLeft
    \/ P_WriteRight
    \/ P_StoreIndex
    \/ P_FetchAdd

ConsumerStep ==
    \/ \E hasDest \in BOOLEAN, maxFrames \in 0 .. MaxConcFrames : C_Call(hasDest, maxFrames)
    \/ C_Available
    \/ C_LoadIndex
    \/ C_CopyLeft
    \/ C_CopyRight

NextRingConc == ProducerStep \/ ConsumerStep

SpecRingConc == InitRingConc /\ [][NextRingConc]_vars

\* ---- C2 ----------------------------------------------------------------
\* A concurrent copy has returned frames (its loop ran to the end).
CopyReturnedFrames == c_pc = "idle" /\ ringLast.op = "copy" /\ copied >= 1

\* Frame i (0-based) of the n frames pushed immediately before the write
\* index the copy loaded.
SnapshotFrame(i) == pushed[c_snap - copied + i + 1]

\* The returned frames that are not the snapshot's frame (torn or stale).
BadFrames ==
    {i \in 0 .. (copied - 1) : <<dest[2 * i + 1], dest[2 * i + 2]>> # SnapshotFrame(i)}

\* C2 as claimed: a copy that ran concurrently with pushes returns at most
\* one frame that is torn or stale; every other frame is the frame pushed at
\* its place before the snapshotted write index.
C2_AtMostOneTornFrame ==
    CopyReturnedFrames => Cardinality(BadFrames) <= 1

\* C2 amended: the number of torn or stale frames is at most the number of
\* pushes that were writing their frame when the write index was loaded or
\* that wrote a sample while the copy loop ran.
C2_TornFramesBoundedByOverlap ==
    CopyReturnedFrames =>
        /\ c_snap >= copied
        /\ Cardinality(BadFrames) <= c_overlap

\* A copy of two frames that two pushes overlapped, both frames spoiled.
C2_Witness ==
    /\ CopyReturnedFrames
    /\ copied = 2
    /\ c_overlap = 2
    /\ Cardinality(BadFrames) = 2

\* ---- SpecVoice: notes, samples and envelope parameters on one thread ------
\* The calls that move the voice and its envelope, as often as the caller
\* likes; at most MaxHeld notes are held at a time.
MaxHeld == 2       \* most notes the caller holds at a time
MaxRun == 6        \* run counts the samples of one stretch up to this

VoiceFrequencies == {0, NoteA}
VoiceOffFrequencies == {NaN, NoteA}

\* (attack, decay, sustain, release) of updateADSRParameters, times in samples.
VoiceADSRChoices == {<<1, 1, 0, 1>>, <<3, 2, LevelMax \div 2, 3>>, <<2, 1, LevelMax, 2>>}

\* The observations of the other specifications stay put.
VoiceFrame == UNCHANGED <<ringVars, concVars, threadVars, calls, added, events, unitVars>>

\* A note call starts a new stretch when it changes note_on or resets the
\* envelope.
RunAfterNoteCall == IF m_noteOn' # m_noteOn \/ m_envelope' # m_envelope THEN 0 ELSE run

VoiceTriggerNote ==
    \E f \in VoiceFrequencies, detune \in DetuneChoices(m_noteJitterAmountCents),
       lfoPhase \in LfoPhaseChoices :
        /\ Len(m_activeNotes) < MaxHeld
        /\ TriggerNote(f, detune, lfoPhase)
        /\ last' = [op |-> "triggerNote", f |-> f, had |-> m_activeNotes # <<>>,
                    hit |-> FALSE, pair |-> FALSE]
        /\ run' = RunAfterNoteCall
        /\ UNCHANGED out
        /\ VoiceFrame

VoiceTriggerNoteOff ==
    \E f \in VoiceOffFrequencies :
        /\ TriggerNoteOff(f)
        /\ last' = [op |-> "triggerNoteOff", f |-> f, had |-> m_activeNotes # <<>>,
                    hit |-> LastMatchIndex(m_activeNotes, f) # 0, pair |-> FALSE]
        /\ run' = RunAfterNoteCall
        /\ UNCHANGED out
        /\ VoiceFrame

VoiceGetNextSample ==
    /\ GetNextSample
    /\ last' = Called("getNextSample")
    /\ run' = Min(run + 1, MaxRun)
    /\ VoiceFrame

VoiceUpdateADSRParameters ==
    \E p \in VoiceADSRChoices :
        /\ UpdateADSRParameters(p[1], p[2], p[3], p[4])
        /\ last' = Called("updateADSRParameters")
        /\ run' = 0
        /\ UNCHANGED out
        /\ VoiceFrame

NextVoice ==
    \/ VoiceTriggerNote
    \/ VoiceTriggerNoteOff
    \/ VoiceGetNextSample
    \/ VoiceUpdateADSRParameters

SpecVoice == Init /\ [][NextVoice]_vars

\* The envelope stages in which a note sounds or fades.
SoundingStages == {"Attack", "Decay", "Sustain", "Release"}

\* C11: a call of trigger_note(f) with a valid f (0 < f <= 20000 Hz) sets both
\* oscillator phases to 0, draws a new LFO phase and resets the envelope (Idle,
\* level 0) if and only if no note was held immediately before the call; when
\* a note was held (legato) the phases and the envelope's stage and level are
\* as they were.
C11_ResetIffFirstNote ==
    [][last'.op = "triggerNote" /\ FGt(last'.f, 0) /\ FLe(last'.f, MaxValidHz * FreqPerHz)
       => IF m_activeNotes = <<>>
          THEN /\ m_primaryPhase' = 0
               /\ m_secondaryPhase' = 0
               /\ m_lfoPhase' \in LfoPhaseChoices
               /\ m_envelope'.state = "Idle"
               /\ m_envelope'.level = 0
          ELSE /\ UNCHANGED <<m_primaryPhase, m_secondaryPhase, m_lfoPhase>>
               /\ m_envelope'.state = m_envelope.state
               /\ m_envelope'.level = m_envelope.level]_vars

\* C11's case: a second note was triggered while the first sounded, with the
\* primary phase advanced and the envelope in Decay above level 0.
C11_Witness ==
    /\ last.op = "triggerNote"
    /\ last.f = NoteA
    /\ last.had
    /\ Len(m_activeNotes) = 2
    /\ m_primaryPhase # 0
    /\ m_envelope.state = "Decay"
    /\ m_envelope.level > 0

\* C12: when trigger_note is called with a valid frequency while the envelope
\* is in Release (every note released, level still above 0), the level the
\* envelope has after the call is the level it had: it does not jump to 0,
\* and Attack continues from there.
C12_RetriggerInReleaseKeepsLevel ==
    [][/\ last'.op = "triggerNote"
       /\ FGt(last'.f, 0) /\ FLe(last'.f, MaxValidHz * FreqPerHz)
       /\ m_activeNotes = <<>>
       /\ m_envelope.state = "Release"
       /\ m_envelope.level > 0
       => m_envelope'.level = m_envelope.level]_vars

\* The envelope's times are positive and its sustain level is in [0, 1].
PositiveADSR(e) ==
    e.attack > 0 /\ e.decay > 0 /\ e.release > 0 /\ e.sustain \in 0 .. LevelMax

C14_UpdateADSRKeepsStageAndLevel ==
    [][last'.op = "updateADSRParameters" /\ m_envelope.state \in SoundingStages
       => /\ m_envelope'.state = m_envelope.state
          /\ m_envelope'.level = m_envelope.level]_vars

\* ---- SpecChain: the effect chain built, played and emptied ----------------
MaxChainCalls == 5 \* most AudioSystem calls in one behaviour of SpecChain

\* One more call is made; added follows the chain's insertions.
ChainCounted ==
    /\ calls < MaxChainCalls
    /\ calls' = calls + 1
    /\ UNCHANGED <<ringVars, concVars, threadVars, run, events, unitVars>>

ChainAddEffect ==
    \E h \in 0 .. NumHandles :
        /\ AddEffect(h)
        /\ added' = Append(added, h)
        /\ last' = Called("addEffect")
        /\ UNCHANGED out
        /\ ChainCounted

ChainClearEffects ==
    /\ ClearEffects
    /\ added' = <<>>
    /\ last' = Called("clearEffects")
    /\ UNCHANGED out
    /\ ChainCounted

ChainResetEffects ==
    /\ ResetEffects
    /\ last' = Called("resetEffects")
    /\ UNCHANGED <<out, added>>
    /\ ChainCounted

ChainTriggerNote ==
    \E detune \in DetuneChoices(m_noteJitterAmountCents), lfoPhase \in LfoPhaseChoices :
        /\ TriggerNote(NoteA, detune, lfoPhase)
        /\ last' = [Called("triggerNote") EXCEPT !.f = NoteA, !.had = m_activeNotes # <<>>]
        /\ UNCHANGED <<out, added>>
        /\ ChainCounted

ChainGetNextSample ==
    /\ GetNextSample
    /\ last' = Called("getNextSample")
    /\ UNCHANGED added
    /\ ChainCounted

NextChain ==
    \/ ChainAddEffect
    \/ ChainClearEffects
    \/ ChainResetEffects
    \/ ChainTriggerNote
    \/ ChainGetNextSample

SpecChain == Init /\ [][NextChain]_vars

\* The distinct non-null handles of hs, in the order of their first occurrence.
RECURSIVE FirstInsertions(_)
FirstInsertions(hs) ==
    IF hs = <<>> THEN <<>>
    ELSE LET front == FirstInsertions(SubSeq(hs, 1, Len(hs) - 1))
             h == hs[Len(hs)]
         IN  IF h = 0 \/ \E i \in 1 .. Len(front) : front[i] = h
             THEN front ELSE Append(front, h)

\* C15: after any sequence of add_effect and clear_effects calls the chain is
\* exactly the sequence of the distinct non-null handles added since the last
\* clear_effects, in the order of their first insertion (adding a handle again
\* or adding null changes nothing), and next_sample applies the effects in
\* that order.
C15_ChainIsFirstInsertions ==
    /\ m_effects = FirstInsertions(added)
    /\ last.op = "getNextSample" => out.fx = m_effects

\* C15's case: two handles were added, one of them twice, and null once; the
\* sample then pulled went through both effects, second-added last.
C15_Witness ==
    /\ last.op = "getNextSample"
    /\ Len(added) = 4
    /\ \E i \in 1 .. 4 : added[i] = 0
    /\ \E i, j \in 1 .. 4 : i < j /\ added[i] = added[j] /\ added[i] # 0
    /\ out.fx = <<2, 1>>

\* C16: clear_effects() calls reset() on every effect of the chain before it
\* removes it; afterwards the chain is empty, low_pass_active is false and
\* get_low_pass_cutoff() returns 0.
C16_ClearResetsThenEmpties ==
    [][last'.op = "clearEffects"
       => /\ \A h \in Objects : InChain(h) => heap'[h].zeroed
          /\ m_effects' = <<>>
          /\ ~HasLowPassEffect'
          /\ GetLowPassCutoff' = 0]_vars

\* C16's case: a sounding sample went through a low-pass and a delay, whose
\* memories it left non-zero; the chain was then cleared.
C16_Witness ==
    /\ last.op = "clearEffects"
    /\ m_effects = <<>>
    /\ out.amp # 0
    /\ out.fx = <<1, 2>>
    /\ heap[1].zeroed /\ heap[2].zeroed
    /\ ~m_lowPassActive

\* ---- SpecFilter: the calls that decide low_pass_active --------------------
MaxFilterCalls == 5 \* most AudioSystem calls in one behaviour of SpecFilter

\* The AudioConfig values passed to configure; ADSR times in samples.
ConfigChoices ==
    {[waveform |-> IF l = <<>> THEN "" ELSE "SAW", effects |-> l,
      attackTime |-> 1, decayTime |-> 1, sustainLevel |-> LevelMax \div 2,
      releaseTime |-> 2] : l \in ConfigEffectLists}

\* (effectName, parameters) of updateEffectParameters: low-pass parameters for
\* a low-pass name, for a delay name (no effect takes them), octave and delay
\* parameters for their names.
ParameterChoices ==
    {<<"lowpass", [class |-> "lowpass", cutoffFreq |-> 30, octaveShift |-> 1, mix |-> 0,
                   delayTime |-> 0, feedback |-> 0]>>,
     <<"Echo", [class |-> "lowpass", cutoffFreq |-> 30, octaveShift |-> 1, mix |-> 0,
                delayTime |-> 0, feedback |-> 0]>>,
     <<"octave", [class |-> "octave", cutoffFreq |-> 0, octaveShift |-> 2, mix |-> 0,
                  delayTime |-> 0, feedback |-> 0]>>,
     <<"delay", [class |-> "delay", cutoffFreq |-> 0, octaveShift |-> 1, mix |-> MixOne + 1,
                 delayTime |-> 3000, feedback |-> 120]>>}

\* One more call is made, which returns no sample.
FilterCounted ==
    /\ calls < MaxFilterCalls
    /\ calls' = calls + 1
    /\ UNCHANGED <<out, ringVars, concVars, threadVars, probeVars, unitVars>>

FilterCalled(op, arg) == FilterCounted /\ last' = [Called(op) EXCEPT !.f = arg]

FilterAddEffect == \E h \in 0 .. NumHandles : AddEffect(h) /\ FilterCalled("addEffect", h)
FilterClearEffects == ClearEffects /\ FilterCalled("clearEffects", 0)
FilterConfigure == \E c \in ConfigChoices : Configure(c) /\ FilterCalled("configure", 0)
FilterSetLowPassCutoff ==
    \E hz \in CutoffChoices : SetLowPassCutoff(hz) /\ FilterCalled("setLowPassCutoff", hz)
FilterUpdateEffectParameters ==
    \E p \in ParameterChoices :
        /\ UpdateEffectParameters(p[1], p[2])
        /\ last' = [op |-> "updateEffectParameters", f |-> 0, had |-> FALSE,
                    hit |-> UpdateTarget(p[1], p[2]) # 0, pair |-> FALSE,
                    effectName |-> p[1], parameters |-> p[2]]
        /\ FilterCounted

NextFilter ==
    \/ FilterAddEffect
    \/ FilterClearEffects
    \/ FilterConfigure
    \/ FilterSetLowPassCutoff
    \/ FilterUpdateEffectParameters

SpecFilter == Init /\ [][NextFilter]_vars

\* The low-pass effects of the chain.
LowPassesInChain == {h \in Objects : InChain(h) /\ heap[h].kind = "lowpass"}

\* C17: in every state reached by add_effect, clear_effects, configure,
\* set_low_pass_cutoff and update_effect_parameters, low_pass_active
\* (hasLowPassEffect) is true if and only if the chain holds at least one
\* low-pass effect.
C17_LowPassActiveIffInChain == HasLowPassEffect <=> LowPassesInChain # {}

\* C17's case: a low-pass was in the chain and had its cutoff set; configure
\* then rebuilt the chain with effects but without a low-pass.
C17_Witness ==
    /\ last.op = "configure"
    /\ m_effects # <<>>
    /\ ~HasLowPassEffect
    /\ heap[1].m_cutoff # NewEffect(1).m_cutoff

\* C18: set_low_pass_cutoff(hz) hands hz to every low-pass effect of the
\* chain (each keeps it within its own range, 20 Hz to 0.45 of its Nyquist
\* frequency) and a get_low_pass_cutoff() that follows returns hz; with no
\* low-pass in the chain the call changes no effect and get_low_pass_cutoff()
\* returns 0.
C18_SetThenGetLowPassCutoff ==
    [][last'.op = "setLowPassCutoff"
       => IF LowPassesInChain # {}
          THEN /\ \A h \in LowPassesInChain :
                     heap'[h].m_cutoff = ClampValue(last'.f, kMinCutoff,
                                                    MaxCutoff(heap[h].m_sampleRate))
               /\ \A h \in Objects \ LowPassesInChain : heap'[h] = heap[h]
               /\ GetLowPassCutoff' = last'.f
          ELSE /\ heap' = heap
               /\ GetLowPassCutoff' = 0]_vars

\* C18's case: the chain holds the low-pass configure made (at the engine's
\* sample rate) and one the caller added (at 44100 Hz); 5000 Hz was set.
C18_Witness ==
    /\ last.op = "setLowPassCutoff"
    /\ last.f = 5000
    /\ Cardinality(LowPassesInChain) = 2
    /\ InChain(1)
    /\ heap[1].m_cutoff = 5000
    /\ \E h \in ConfigHandles : InChain(h) /\ heap[h].m_cutoff = MaxCutoff(SampleRateHz)
    /\ GetLowPassCutoff = 5000

\* ---- AudioSystemAdapter: MIDI events translated into AudioSystem calls -----
\* MIDI_NOTE_FREQUENCIES (Common/notes.h is not among the sources; modelled
\* from the specification, section 4.9): 128 entries, 440 Hz at note 69, an
\* octave every 12 notes.  Defined here for the notes 69 - 12k.
NoteTableSize == 2 ^ 7
MidiNoteFrequency(note) == OctaveShift(440 * FreqPerHz, (note - 69) \div 12)

\* update, lines 160-164: minCutoff * std::pow(maxCutoff / minCutoff,
\* data2 / 127.0f), in whole Hz, for the controller values 0, 64 and 127;
\* pow(150, 0) is 1, pow(150, 64/127) is 12.4914, pow(150, 1) is 150.
ControllerCutoffFromZero(data2) == (maxCutoff * data2) \div 127
ControllerCutoff(data2) ==
    CASE data2 = 0 -> minCutoff
      [] data2 = 127 -> minCutoff * (maxCutoff \div minCutoff)
      [] data2 = 64 -> (minCutoff * 124914) \div 10000

\* void AudioSystemAdapter::update(void* params), lines 123-174, for the
\* MidiEvent e = [type, data1, data2, value]; detune and lfoPhase are the random
\* draws of triggerNote.
Update(e, detune, lfoPhase) ==
    CASE e.type = "NOTE_ON" ->
            IF e.data1 < NoteTableSize
            THEN TriggerNote(MidiNoteFrequency(e.data1), detune, lfoPhase)
            ELSE UNCHANGED engineState
      [] e.type = "NOTE_OFF" ->
            IF e.data1 < NoteTableSize
            THEN TriggerNoteOff(MidiNoteFrequency(e.data1))
            ELSE TriggerNoteOff(NaN)
      [] e.type = "PITCH_BEND" -> SetPitchBend(e.value)
      [] e.type = "CONTROL_CHANGE" ->
            IF e.data1 = 7
            THEN SetLowPassCutoff(ControllerCutoff(e.data2))
            ELSE UNCHANGED engineState
      [] OTHER -> UNCHANGED engineState

\* The AudioSystem call update makes for e, "none" if it makes none.
CallMadeFor(e) ==
    CASE e.type = "NOTE_ON" /\ e.data1 < NoteTableSize -> "triggerNote"
      [] e.type = "NOTE_OFF" -> "triggerNoteOff"
      [] e.type = "PITCH_BEND" -> "setPitchBend"
      [] e.type = "CONTROL_CHANGE" /\ e.data1 = 7 -> "setLowPassCutoff"
      [] OTHER -> "none"

\* ---- SpecMidi: an engine driven through the translator ---------------------
MidiEvent(type, data1, data2, value) ==
    [type |-> type, data1 |-> data1, data2 |-> data2, value |-> value]

\* The events of scenario S6: note 69 struck with velocity 100, then
\* controller 7 at 0 and at 127.
ScenarioS6 ==
    <<MidiEvent("NOTE_ON", 69, 100, 0), MidiEvent("CONTROL_CHANGE", 7, 0, 0),
      MidiEvent("CONTROL_CHANGE", 7, 127, 0)>>

\* A behaviour delivers as many events as the scenario has.
MaxEvents == Len(ScenarioS6)

\* Note 69 struck, struck with velocity 0 and released; a note number beyond
\* the table; a pitch bend; controller 7 at 0, 64 and 127; another controller;
\* an event type update does not handle.
MidiEvents ==
    {MidiEvent("NOTE_ON", 69, 100, 0), MidiEvent("NOTE_ON", 69, 0, 0),
     MidiEvent("NOTE_ON", 200, 100, 0),
     MidiEvent("NOTE_OFF", 69, 0, 0), MidiEvent("NOTE_OFF", 200, 0, 0),
     MidiEvent("PITCH_BEND", 0, 0, 8191),
     MidiEvent("CONTROL_CHANGE", 7, 0, 0), MidiEvent("CONTROL_CHANGE", 7, 64, 0),
     MidiEvent("CONTROL_CHANGE", 7, 127, 0), MidiEvent("CONTROL_CHANGE", 1, 64, 0),
     MidiEvent("PROGRAM_CHANGE", 5, 0, 0)}

MidiFrame == UNCHANGED <<out, calls, run, ringVars, concVars, threadVars, unitVars>>

\* The MIDI device notifies the adapter of an event.
MidiUpdate ==
    \E e \in MidiEvents, detune \in DetuneChoices(m_noteJitterAmountCents),
       lfoPhase \in LfoPhaseChoices :
        /\ Len(events) < MaxEvents
        /\ Update(e, detune, lfoPhase)
        /\ events' = Append(events, e)
        /\ last' = [Called(CallMadeFor(e)) EXCEPT !.had = m_activeNotes # <<>>]
        /\ UNCHANGED added
        /\ MidiFrame

\* The application adds an effect to the engine, once at most.
MidiAddEffect ==
    \E h \in Handles :
        /\ added = <<>>
        /\ AddEffect(h)
        /\ added' = <<h>>
        /\ last' = Called("addEffect")
        /\ UNCHANGED events
        /\ MidiFrame

NextMidi == MidiUpdate \/ MidiAddEffect

SpecMidi == Init /\ [][NextMidi]_vars

\* The event update handled last.
LastEvent == events[Len(events)]

\* C19 as stated: an engine is created and then receives only MIDI events
\* through the translator.  After NOTE_ON(note 69, velocity 100) and
\* CONTROL_CHANGE(controller 7, value 0), get_low_pass_cutoff() is 80; after
\* a further CONTROL_CHANGE(controller 7, value 127) it is 12000 (+-50).
C19_ScenarioS6 ==
    /\ added = <<>> /\ events = SubSeq(ScenarioS6, 1, 2)
       => GetLowPassCutoff = 80
    /\ added = <<>> /\ events = ScenarioS6
       => GetLowPassCutoff \in (12000 - 50) .. (12000 + 50)

\* C19, amended: right after the translator handled CONTROL_CHANGE with
\* controller 7, get_low_pass_cutoff() is 80 for value 0 and 12000 (+-50) for
\* value 127 when the chain holds a low-pass effect, and 0 when it holds none
\* (as in scenario S6, where no effect was added).
C19_ControllerCutoffNeedsLowPass ==
    events # <<>> /\ last.op = "setLowPassCutoff"
    => IF LowPassesInChain = {}
       THEN GetLowPassCutoff = 0
       ELSE /\ LastEvent.data2 = 0 => GetLowPassCutoff = 80
            /\ LastEvent.data2 = 127 => GetLowPassCutoff \in (12000 - 50) .. (12000 + 50)

\* C19's case: a low-pass was added, then the events of S6 arrived.
C19_Witness ==
    /\ added = <<1>>
    /\ events = ScenarioS6
    /\ last.op = "setLowPassCutoff"
    /\ GetLowPassCutoff = 12000

\* C20: a NOTE_ON event with velocity 0 is treated as a note-off: the
\* translator calls trigger_note_off(frequency_table[note]) and no note is
\* added; only a NOTE_ON with velocity above 0 calls trigger_note.
C20_NoteOnVelocityZeroIsNoteOff ==
    [][/\ events' # events
       /\ events'[Len(events')].type = "NOTE_ON"
       /\ events'[Len(events')].data1 < NoteTableSize
       /\ events'[Len(events')].data2 = 0
       => /\ last'.op = "triggerNoteOff"
          /\ m_activeNotes' = RemoveLastMatch(m_activeNotes,
                                              MidiNoteFrequency(events'[Len(events')].data1))]_vars


\* =====================================================================
\* AudioSystemWrapper (N-API) and AudioService (TypeScript) above the engine
\* =====================================================================
MaxPressed == 2    \* most notes the wrapper's list and the engine hold in SpecWrapper

\* TriggerNoteOff, lines 264-267: std::fabs(active - frequency) < 1e-3f
WrapperMatch(active, frequency) ==
    /\ ~IsNaN(active)
    /\ ~IsNaN(frequency)
    /\ Abs(active - frequency) <= (FreqPerHz - 1) \div 1000

\* TriggerNoteOff, line 268: find_if over rbegin..rend, 0 if there is none.
WrapperLastMatch(freqs, frequency) ==
    LET hits == {i \in 1 .. Len(freqs) : WrapperMatch(freqs[i], frequency)}
    IN  IF hits = {} THEN 0 ELSE CHOOSE i \in hits : \A j \in hits : j <= i

\* Napi::Value AudioSystemWrapper::TriggerNote, lines 232-248.  Without a
\* number it throws a TypeError and does nothing.
WrapperTriggerNote(given, value, detune, lfoPhase) ==
    IF ~given
    THEN UNCHANGED <<engineState, m_activeFrequencies, m_currentFrequency>>
    ELSE /\ m_currentFrequency' = value
         /\ TriggerNote(value, detune, lfoPhase)
         /\ m_activeFrequencies' = Append(m_activeFrequencies, value)

\* TriggerNoteOff, lines 253-262: the frequency the wrapper hands to the
\* engine: the argument, else the back of its own list, else NaN.
WrapperOffFrequency(given, value) ==
    IF given THEN value
    ELSE IF m_activeFrequencies # <<>>
         THEN m_activeFrequencies[Len(m_activeFrequencies)]
         ELSE NaN

\* Napi::Value AudioSystemWrapper::TriggerNoteOff, lines 250-287.
WrapperTriggerNoteOff(given, value) ==
    LET frequency == WrapperOffFrequency(given, value)
        i == WrapperLastMatch(m_activeFrequencies, frequency)
    IN  /\ m_activeFrequencies' =
              IF IsNaN(frequency) THEN <<>>
              ELSE IF i = 0 THEN m_activeFrequencies
              ELSE [j \in 1 .. (Len(m_activeFrequencies) - 1) |->
                       IF j < i THEN m_activeFrequencies[j]
                       ELSE m_activeFrequencies[j + 1]]
        /\ TriggerNoteOff(frequency)
        /\ m_currentFrequency' =
              IF m_activeFrequencies' = <<>> THEN 0 ELSE m_currentFrequency

\* Napi::Value AudioSystemWrapper::Stop, lines 223-230: the device stops; the
\* engine keeps its notes.
WrapperStop ==
    /\ m_activeFrequencies' = <<>>
    /\ m_currentFrequency' = 0
    /\ UNCHANGED engineState

\* AudioService.playNote(frequency), AudioService.ts:61-67.
PlayNote(frequency, detune, lfoPhase) ==
    /\ WrapperTriggerNote(TRUE, frequency, detune, lfoPhase)
    /\ activeFrequencies' =
          IF IsNaN(frequency) THEN activeFrequencies
          ELSE activeFrequencies \cup {frequency}

\* AudioService.stopNote(frequency?), AudioService.ts:74-83.
StopNote(given, frequency) ==
    IF given /\ ~IsNaN(frequency)
    THEN /\ activeFrequencies' = activeFrequencies \ {frequency}
         /\ WrapperTriggerNoteOff(TRUE, frequency)
    ELSE /\ activeFrequencies' = {}
         /\ WrapperTriggerNoteOff(FALSE, NaN)

\* ---- SpecWrapper: notes pressed and released through the wrapper -----------
WrapperFrequencies == {0, NoteA, TopFrequency}
WrapperOffArguments ==
    {<<FALSE, NaN>>, <<TRUE, NaN>>, <<TRUE, NoteA>>, <<TRUE, TopFrequency>>}

\* The caller's record of a call through the wrapper or the service.
WrapperCalled(op, given, value) ==
    /\ last' = [op |-> op, f |-> value, had |-> m_activeNotes # <<>>,
                hit |-> FALSE, pair |-> FALSE, given |-> given]
    /\ UNCHANGED <<out, calls, ringVars, concVars, threadVars, probeVars, soloVars>>

NativeTriggerNote ==
    \E given \in BOOLEAN, f \in WrapperFrequencies,
       detune \in DetuneChoices(m_noteJitterAmountCents), lfoPhase \in LfoPhaseChoices :
        /\ Len(m_activeFrequencies) < MaxPressed
        /\ Len(m_activeNotes) < MaxPressed
        /\ WrapperTriggerNote(given, f, detune, lfoPhase)
        /\ UNCHANGED activeFrequencies
        /\ WrapperCalled("TriggerNote", given, f)

NativeTriggerNoteOff ==
    \E a \in WrapperOffArguments :
        /\ WrapperTriggerNoteOff(a[1], a[2])
        /\ UNCHANGED activeFrequencies
        /\ WrapperCalled("TriggerNoteOff", a[1], a[2])

NativeStop ==
    /\ WrapperStop
    /\ UNCHANGED activeFrequencies
    /\ WrapperCalled("Stop", FALSE, 0)

ServicePlayNote ==
    \E f \in WrapperFrequencies,
       detune \in DetuneChoices(m_noteJitterAmountCents), lfoPhase \in LfoPhaseChoices :
        /\ Len(m_activeFrequencies) < MaxPressed
        /\ Len(m_activeNotes) < MaxPressed
        /\ PlayNote(f, detune, lfoPhase)
        /\ WrapperCalled("playNote", TRUE, f)

ServiceStopNote ==
    \E a \in WrapperOffArguments :
        /\ StopNote(a[1], a[2])
        /\ WrapperCalled("stopNote", a[1], a[2])

NextWrapper ==
    \/ NativeTriggerNote
    \/ NativeTriggerNoteOff
    \/ NativeStop
    \/ ServicePlayNote
    \/ ServiceStopNote

SpecWrapper == Init /\ [][NextWrapper]_vars

\* ---- C21 ---------------------------------------------------------------
\* C21: releasing with the frequency omitted releases all notes: after the
\* native triggerNoteOff() with no argument, and after AudioService.stopNote()
\* with no frequency, the engine's active notes are empty and note_on is
\* false, whatever notes were held before.
C21_OmittedReleasesAll ==
    [][(last'.op \in {"TriggerNoteOff", "stopNote"} /\ ~last'.given)
          => (m_activeNotes' = <<>> /\ ~m_noteOn')]_vars


\* =====================================================================
\* Pitch bend and the secondary oscillator
\* =====================================================================
\* The other specifications' variables stay put; these specifications end
\* by themselves, so the calls are not counted.
ToneFrame == UNCHANGED <<calls, ringVars, concVars, threadVars, probeVars, unitVars>>

ToneTriggerNote ==
    \E detune \in DetuneChoices(m_noteJitterAmountCents), lfoPhase \in LfoPhaseChoices :
        /\ m_activeNotes = <<>>
        /\ TriggerNote(NoteA, detune, lfoPhase)
        /\ last' = [Called("triggerNote") EXCEPT !.f = NoteA]
        /\ UNCHANGED out
        /\ ToneFrame

ToneTriggerNoteOff ==
    /\ TriggerNoteOff(NaN)
    /\ last' = [Called("triggerNoteOff") EXCEPT !.f = NaN]
    /\ UNCHANGED out
    /\ ToneFrame

\* ---- SpecBend: the pitch wheel moved while a note plays -------------------
\* Raw wheel values: beyond, at and inside both ends of the 14-bit range.
BendRaws ==
    {0 - 9000, 0 - 8193, 0 - 8192, 0 - 8191, 0 - 4096, 0 - 1, 0,
     1, 4096, 8190, 8191, 8192, 9000}

BendSetPitchBend ==
    \E raw \in BendRaws :
        /\ SetPitchBend(raw)
        /\ last' = [Called("setPitchBend") EXCEPT !.f = raw]
        /\ UNCHANGED out
        /\ ToneFrame

BendGetNextSample ==
    /\ GetNextSample
    /\ last' = Called("getNextSample")
    /\ ToneFrame

NextBend ==
    \/ BendSetPitchBend
    \/ ToneTriggerNote
    \/ ToneTriggerNoteOff
    \/ BendGetNextSample

SpecBend == Init /\ [][NextBend]_vars

SecondaryWaveforms == {"null", "sine", "saw"}

SecConfigureSecondaryOscillator ==
    \E p \in SecondaryChoices :
        /\ ConfigureSecondaryOscillator(p[1], p[2], p[3], p[4])
        /\ last' = [Called("configureSecondaryOscillator") EXCEPT
                        !.had = SecondarySounds, !.hit = p[1]]
        /\ UNCHANGED out
        /\ ToneFrame

SecSetSecondaryWaveform ==
    \E w \in SecondaryWaveforms :
        /\ SetSecondaryWaveform(w)
        /\ last' = Called("setSecondaryWaveform")
        /\ UNCHANGED out
        /\ ToneFrame

\* pair: the sample directly follows a call that switched a sounding
\* oscillator 2 off.
SecGetNextSample ==
    /\ GetNextSample
    /\ last' = [Called("getNextSample") EXCEPT
                    !.pair = /\ last.op = "configureSecondaryOscillator"
                             /\ last.had
                             /\ ~last.hit]
    /\ ToneFrame

NextSecondary ==
    \/ SecConfigureSecondaryOscillator
    \/ SecSetSecondaryWaveform
    \/ ToneTriggerNote
    \/ ToneTriggerNoteOff
    \/ SecGetNextSample

SpecSecondary == Init /\ [][NextSecondary]_vars

\* ---- C23 ---------------------------------------------------------------
\* C23: after configureSecondaryOscillator(false, ...) with any other
\* arguments, and until the next configureSecondaryOscillator(true, ...),
\* oscillator 2 contributes nothing: the stored secondary mix is 0, the
\* secondary generator is not run (its phase stays), and every sample
\* generated equals primary sample times envelope level.
C23_DisabledSecondaryIsSilent ==
    /\ [](~m_secondaryEnabled => m_secondaryMix = 0)
    /\ [][(last'.op = "getNextSample" /\ ~m_secondaryEnabled) =>
             /\ m_secondaryPhase' = m_secondaryPhase
             /\ out'.amp = WaveValue(m_primaryWaveform, m_primaryPhase) * MixOne
                              * EnvelopeAfter.level]_vars

\* A sounding sample right after a sounding oscillator 2 was switched off.
C23_Witness ==
    /\ last.op = "getNextSample"
    /\ last.pair
    /\ ~m_secondaryEnabled
    /\ m_secondaryWaveform # m_primaryWaveform
    /\ out.amp # 0


\* ---- C24 ---------------------------------------------------------------
\* The positions of the chain that hold an effect of a type.
ChainPositionsOfKind(kind) ==
    {i \in 1 .. Len(m_effects) : heap[m_effects[i]].kind = kind}

\* C24: updateEffectParameters(name, params) returns true only if an effect
\* of the named type is in the chain and params has the matching parameter
\* type, and it then modifies only the first such effect in chain order; when
\* it returns false, no effect and no engine field (low_pass_active and the
\* last cutoff included) is changed.
C24_UpdateEffectParameters ==
    [][last'.op = "updateEffectParameters" =>
          LET kind == EffectKindOfName(ToLowercase(last'.effectName))
              at == ChainPositionsOfKind(kind)
          IN  IF last'.hit
              THEN /\ kind # "none"
                   /\ at # {}
                   /\ last'.parameters.class = kind
                   /\ \A h \in Objects :
                         heap'[h] # heap[h] =>
                            /\ h \in {m_effects[i] : i \in at}
                            /\ \A i \in at : \E j \in at : j <= i /\ m_effects[j] = h
                   /\ UNCHANGED <<noteVars, oscVars, paramVars, m_effects, m_envelope>>
              ELSE UNCHANGED engineState]_vars

\* A call that returned true with two low-pass filters in the chain: the
\* first took the cutoff, the second did not.
C24_Witness ==
    /\ last.op = "updateEffectParameters"
    /\ last.hit
    /\ \E i, j \in 1 .. Len(m_effects) :
          /\ i < j
          /\ heap[m_effects[i]].kind = "lowpass"
          /\ heap[m_effects[j]].kind = "lowpass"
          /\ heap[m_effects[i]].m_cutoff = last.parameters.cutoffFreq
          /\ heap[m_effects[j]].m_cutoff # last.parameters.cutoffFreq


\* =====================================================================
\* AudioSystemWrapper::GetRecentWaveform against the running audio thread
\* =====================================================================
\* GetRecentWaveform, lines 542-545: framesToCopy from the requested frames,
\* the capacity and one load of availableFrames().
WaveformFramesUnchecked(requestedFrames) == Min(requestedFrames, m_capacityFrames)
WaveformFrames(requestedFrames) ==
    Min(Min(requestedFrames, m_capacityFrames),
        AvailableFrames(m_totalFramesWritten, m_capacityFrames))

\* Napi::Value AudioSystemWrapper::GetRecentWaveform, lines 513-556, up to
\* its call of copyLatestInterleaved(result.Data(), framesToCopy): dest is
\* the Float32Array result of framesToCopy * 2 zeroes; with no frames it is
\* returned at once.  The copy itself is the consumer's steps above.
W_GetRecentWaveform(requestedFrames) ==
    LET framesToCopy == WaveformFrames(requestedFrames)
    IN  /\ c_pc = "idle"
        /\ c_maxFrames' = framesToCopy
        /\ dest' = [j \in 1 .. (2 * framesToCopy) |-> 0]
        /\ ringLast' = [op |-> IF framesToCopy = 0 THEN "copy" ELSE "copying",
                        maxFrames |-> framesToCopy, hasDest |-> TRUE,
                        requestedFrames |-> requestedFrames,
                        written |-> m_totalFramesWritten]
        /\ c_framesToCopy' = 0
        /\ c_startFrame' = 0
        /\ c_i' = 0
        /\ c_snap' = 0
        /\ c_overlap' = 0
        /\ IF framesToCopy = 0
           THEN /\ c_pc' = "idle"
                /\ copied' = 0
           ELSE /\ c_pc' = "avail"
                /\ UNCHANGED copied
        /\ UNCHANGED <<m_capacityFrames, m_buffer, m_writeIndex, m_totalFramesWritten,
                       pushed>>
        /\ UNCHANGED <<p_pc, p_frameIndex, p_frame, p_counted>>
        /\ UNCHANGED engVars

\* ---- SpecWaveform: the UI thread polls while the audio thread pushes --------
WaveformStep ==
    \/ \E requestedFrames \in 0 .. (MaxConcFrames + 1) : W_GetRecentWaveform(requestedFrames)
    \/ C_Available
    \/ C_LoadIndex
    \/ C_CopyLeft
    \/ C_CopyRight

NextWaveform == ProducerStep \/ WaveformStep

SpecWaveform == InitRingConc /\ [][NextWaveform]_vars

\* ---- C25 ---------------------------------------------------------------
\* C25: getRecentWaveform(max_frames) returns a buffer whose length is exactly
\* 2 * n, n being the number of frames actually copied, with n at most
\* min(max_frames, ring capacity, frames ever written); this holds also when
\* the audio thread pushes frames between the availability check and the copy.
C25_WaveformLengthIsTwiceCopied ==
    (ringLast.op = "copy" /\ c_pc = "idle") =>
        /\ Len(dest) = 2 * copied
        /\ copied <= ringLast.requestedFrames
        /\ copied <= m_capacityFrames
        /\ copied <= m_totalFramesWritten

\* A poll that returned fewer frames than it asked for and the ring holds,
\* while a push completed between its availability check and its copy.
C25_Witness ==
    /\ ringLast.op = "copy"
    /\ c_pc = "idle"
    /\ copied > 0
    /\ copied < Min(ringLast.requestedFrames, m_capacityFrames)
    /\ c_snap > ringLast.written


\* =====================================================================
\* A DelayEffect driven by its whole interface
\* =====================================================================
\* (delayTime, feedback, mix, sampleRate) of the constructor.
DelayConstructions ==
    {<<DefaultDelayMs, DefaultFeedback, MixOne \div 2, 0>>,
     <<3000, 120, MixOne + 1, DelayRateFloor + 1>>,
     <<0, kMaxFeedback, 0, NaN>>}

\* Stereo inputs of process: silence and one faint pulse, given once in a
\* behaviour; what it leaves in the buffers never fades on this grid.
DelayInputs == {<<0, 0>>, <<1, 0 - 1>>}
DelayRates == {0, DelayRateFloor, DelayRateFloor + 1, NaN}
DelayTimes == {0, DefaultDelayMs, 3000, NaN}
DelayFeedbacks == {0 - 10, 120}
DelayMixes == {0 - 1, MixOne + 1}

InitDelay ==
    /\ EngineInit /\ RingInit(1) /\ RingCallerInit /\ ConcInit /\ WrapperInit
    /\ BiquadInit /\ QueueInit /\ UtilInit
    /\ \E c \in DelayConstructions : delayEffect \in DelayEffectNew(c[1], c[2], c[3], c[4])
    /\ echo = EchoCalled("none")

DelayFrame ==
    UNCHANGED <<ringVars, concVars, engineState, callerVars, threadVars, probeVars,
                wrapperVars, biquadVars, queueVars, utilVars>>

\* A setter or reset was called; it returns nothing.
DelayCalled(op, threw) ==
    /\ echo' = [EchoCalled(op) EXCEPT !.pulses = echo.pulses, !.threw = threw]
    /\ DelayFrame

D_Process ==
    \E x \in DelayInputs :
        /\ x # <<0, 0>> => echo.pulses = 0
        /\ delayEffect' = DelayProcess(delayEffect, x).object
        /\ echo' = [op |-> "process", input |-> x,
                    out |-> DelayProcess(delayEffect, x).out,
                    delayed |-> DelayProcess(delayEffect, x).delayed,
                    pulses |-> echo.pulses + (IF x # <<0, 0>> THEN 1 ELSE 0),
                    threw |-> FALSE, before |-> delayEffect.m_writeIndex]
        /\ DelayFrame

D_Reset ==
    /\ delayEffect' = DelayReset(delayEffect)
    /\ DelayCalled("reset", FALSE)

D_SetSampleRate ==
    \E sampleRate \in DelayRates :
        \E r \in RequiredCasts([delayEffect EXCEPT !.m_sampleRate = sampleRate]),
           n \in SamplesCasts([delayEffect EXCEPT !.m_sampleRate = sampleRate]) :
            /\ delayEffect' = DelaySetRate(delayEffect, sampleRate, r, n)
            /\ DelayCalled("setSampleRate",
                           /\ r = Huge
                           /\ delayEffect' # delayEffect)

D_SetDelayTime ==
    \E delayTime \in DelayTimes :
        \E n \in SamplesCasts([delayEffect EXCEPT !.m_delayTime =
                                  DelayClampValue(delayTime, kMinDelaySeconds,
                                                  kMaxDelaySeconds)]) :
            /\ delayEffect' = DelaySetDelayTime(delayEffect, delayTime, n)
            /\ DelayCalled("setDelayTime", FALSE)

D_SetFeedback ==
    \E feedback \in DelayFeedbacks :
        /\ delayEffect' = DelaySetFeedback(delayEffect, feedback)
        /\ DelayCalled("setFeedback", FALSE)

D_SetMix ==
    \E mix \in DelayMixes :
        /\ delayEffect' = DelaySetMix(delayEffect, mix)
        /\ DelayCalled("setMix", FALSE)

NextDelay ==
    \/ D_Process
    \/ D_Reset
    \/ D_SetSampleRate
    \/ D_SetDelayTime
    \/ D_SetFeedback
    \/ D_SetMix

SpecDelay == InitDelay /\ [][NextDelay]_vars

\* ---- C26 ---------------------------------------------------------------
\* C26: for a DelayEffect, after construction and any sequence of process,
\* reset, setSampleRate, setDelayTime, setFeedback and setMix with arbitrary
\* arguments: write_index < buffer_len, both channel buffers have the same
\* length buffer_len >= 2, and delay_samples is in [1, buffer_len - 1].
C26_DelayIndicesInRange ==
    /\ Len(delayEffect.m_bufferLeft) = Len(delayEffect.m_bufferRight)
    /\ Len(delayEffect.m_bufferLeft) >= 2
    /\ delayEffect.m_writeIndex >= 0
    /\ delayEffect.m_writeIndex < Len(delayEffect.m_bufferLeft)
    /\ delayEffect.m_delaySamples >= 1
    /\ delayEffect.m_delaySamples <= Len(delayEffect.m_bufferLeft) - 1

\* A sample rate of NaN shrank the buffers to two cells under a write index
\* and a delay beyond them, after a pulse was processed.
C26_Witness ==
    /\ echo.op = "setSampleRate"
    /\ IsNaN(delayEffect.m_sampleRate)
    /\ Len(delayEffect.m_bufferLeft) = 2
    /\ echo.before >= 2
    /\ delayEffect.m_writeIndex = 0
    /\ delayEffect.m_delaySamples = 1
    /\ echo.pulses = 1


\* ---- SpecEcho: sound, then silence, through the delay line -------------------
MaxLoud == 2       \* process calls that may carry sound before the input ceases

\* (delayTime, feedback, mix, sampleRate) of the constructor.
EchoConstructions ==
    {<<DefaultDelayMs, DefaultFeedback, MixOne \div 2, 0>>,
     <<3000, 120, MixOne + 1, DelayRateFloor + 1>>}

\* Stereo inputs of process: silence, and a sample whose right channel is
\* beyond the clamp of the delay line.  The effect is set up, then played:
\* the first MaxLoud process calls may carry sound, the later ones silence.
EchoInputs == {<<0, 0>>, <<DelayOne, 0 - 3 * DelayOne>>}
EchoFeedbacks == {0 - 10, DefaultFeedback, 120}
EchoTimes == {0, 3000}

InitEcho ==
    /\ EngineInit /\ RingInit(1) /\ RingCallerInit /\ ConcInit /\ WrapperInit
    /\ BiquadInit /\ QueueInit /\ UtilInit
    /\ \E c \in EchoConstructions : delayEffect \in DelayEffectNew(c[1], c[2], c[3], c[4])
    /\ echo = EchoCalled("none")

E_Process ==
    \E x \in EchoInputs :
        /\ x # <<0, 0>> => echo.pulses < MaxLoud
        /\ delayEffect' = DelayProcess(delayEffect, x).object
        /\ echo' = [op |-> "process", input |-> x,
                    out |-> DelayProcess(delayEffect, x).out,
                    delayed |-> DelayProcess(delayEffect, x).delayed,
                    pulses |-> Min(echo.pulses + 1, MaxLoud),
                    threw |-> FALSE, before |-> delayEffect.m_writeIndex]
        /\ DelayFrame

E_SetFeedback ==
    \E feedback \in EchoFeedbacks :
        /\ echo.pulses = 0
        /\ delayEffect' = DelaySetFeedback(delayEffect, feedback)
        /\ DelayCalled("setFeedback", FALSE)

E_SetDelayTime ==
    \E delayTime \in EchoTimes :
        /\ echo.pulses = 0
        /\ \E n \in SamplesCasts([delayEffect EXCEPT !.m_delayTime =
                                  DelayClampValue(delayTime, kMinDelaySeconds,
                                                  kMaxDelaySeconds)]) :
            /\ delayEffect' = DelaySetDelayTime(delayEffect, delayTime, n)
            /\ DelayCalled("setDelayTime", FALSE)

NextEcho == E_Process \/ E_SetFeedback \/ E_SetDelayTime

\* The audio callback keeps calling process for as long as the device runs.
SpecEcho == InitEcho /\ [][NextEcho]_vars /\ WF_vars(E_Process)

\* ---- C27 ---------------------------------------------------------------
\* The smallest magnitude that still shrinks under the largest feedback on
\* the grid of sample values: below it a product rounds back to itself.
Epsilon == 50 \div (100 - kMaxFeedback) + 1

InputCeased == echo.input = <<0, 0>>

Quiet ==
    \A i \in 1 .. 2 :
        /\ Abs(echo.delayed[i]) < Epsilon
        /\ Abs(echo.out[i]) < Epsilon * MixOne

MaxHeard == 3                        \* calls made on one LowPassEffect

BiquadCutoffs == {10, kMinCutoff, 30, DefaultCutoffHz}
BiquadRates == {0, SampleRateHz, DefaultEffectSampleRateHz}
BiquadResonances == {0, DefaultResonance}
BiquadMixes == {MixOne \div 2, MixOne + 1}
BiquadInputs == {<<0, 0>>, <<2, 0 - 2>>}

InitBiquad ==
    /\ EngineInit /\ RingInit(1) /\ RingCallerInit /\ ConcInit /\ WrapperInit
    /\ DelayInit /\ QueueInit /\ UtilInit
    /\ \E cutoff \in BiquadCutoffs, sampleRate \in BiquadRates,
          resonance \in BiquadResonances, mix \in BiquadMixes :
           /\ lowPassEffect = LowPassEffectNew(cutoff, sampleRate, resonance, mix)
           /\ heard = HeardCalled("LowPassEffect", cutoff)

BiquadFrame ==
    UNCHANGED <<ringVars, concVars, engineState, callerVars, threadVars, probeVars,
                wrapperVars, delayVars, queueVars, utilVars>>

\* A setter or reset was called; it returns nothing.
BiquadCalled(op, requested) ==
    /\ heard.calls < MaxHeard
    /\ heard' = [HeardCalled(op, requested) EXCEPT !.calls = heard.calls + 1]
    /\ BiquadFrame

B_SetCutoff ==
    \E cutoff \in BiquadCutoffs :
        /\ lowPassEffect' = LowPassEffectSetCutoff(lowPassEffect, cutoff)
        /\ BiquadCalled("setCutoff", cutoff)

B_SetSampleRate ==
    \E sampleRate \in BiquadRates :
        /\ lowPassEffect' = LowPassEffectSetSampleRate(lowPassEffect, sampleRate)
        /\ BiquadCalled("setSampleRate", heard.requested)

B_SetResonance ==
    \E resonance \in BiquadResonances :
        /\ lowPassEffect' = LowPassEffectSetResonance(lowPassEffect, resonance)
        /\ BiquadCalled("setResonance", heard.requested)

B_SetMix ==
    \E mix \in BiquadMixes :
        /\ lowPassEffect' = LowPassEffectSetMix(lowPassEffect, mix)
        /\ BiquadCalled("setMix", heard.requested)

B_Reset ==
    /\ lowPassEffect' = LowPassEffectReset(lowPassEffect)
    /\ BiquadCalled("reset", heard.requested)

B_Process ==
    \E x \in BiquadInputs :
        /\ heard.calls < MaxHeard
        /\ lowPassEffect' = LowPassEffectProcess(lowPassEffect, x).object
        /\ heard' = [op |-> "process", requested |-> heard.requested, input |-> x,
                     out |-> LowPassEffectProcess(lowPassEffect, x).out,
                     calls |-> heard.calls + 1]
        /\ BiquadFrame

NextBiquad ==
    \/ B_SetCutoff
    \/ B_SetSampleRate
    \/ B_SetResonance
    \/ B_SetMix
    \/ B_Reset
    \/ B_Process

SpecBiquad == InitBiquad /\ [][NextBiquad]_vars

\* ---- C28 ---------------------------------------------------------------
\* C28: when the low-pass cutoff requested is at or below the minimum
\* (20 Hz), the filter coefficients are those of pass-through (b0 = 1,
\* b1 = b2 = a1 = a2 = 0), so process returns its input unchanged.
C28_MinCutoffIsPassThrough ==
    heard.requested <= kMinCutoff =>
        /\ Coefficients(lowPassEffect) = PassThroughCoefficients
        /\ heard.op = "process" =>
               \A i \in 1 .. 2 : heard.out[i] = MixOne * CoefOne * heard.input[i]

\* ======================================================================
\* A QueueThread, the thread that owns it and its worker.  The owner puts
\* tasks and then destroys the object; the worker runs thread().  A
\* critical section under queueMutex is one step.
\* ======================================================================
MaxTasks == 3                        \* calls of put in the object's life

TaskKinds == {"plain", "throws", "null"}

QueueIds(q) == {q[i].id : i \in 1 .. Len(q)}

TimesRun(id) == Cardinality({i \in 1 .. Len(ran) : ran[i] = id})

\* void QueueThread::put, lines 26-33: an empty task returns at once, any
\* other is pushed under the mutex.
QueuePut(kind) ==
    /\ o_pc = "idle"
    /\ puts' = Append(puts, [id |-> Len(puts) + 1, kind |-> kind])
    /\ IF kind = "null"
       THEN UNCHANGED <<taskQueue, o_pc>>
       ELSE /\ taskQueue' = Append(taskQueue, [id |-> Len(puts) + 1,
                                               throws |-> kind = "throws"])
            /\ o_pc' = "notify"
    /\ UNCHANGED <<m_running, w_pc, w_task, ran, finished, caught>>

\* queueCondition.notify_one / notify_all: a worker that waits is woken.
NotifiedLost == w_pc
Notified == IF w_pc = "waiting" THEN "woken" ELSE w_pc

\* void QueueThread::put, line 35
QueuePutNotify ==
    /\ o_pc = "notify"
    /\ w_pc' = Notified
    /\ o_pc' = "idle"
    /\ UNCHANGED <<taskQueue, m_running, w_task, puts, ran, finished, caught>>

\* QueueThread::~QueueThread, lines 13-16
DestructorStop ==
    /\ o_pc = "idle"
    /\ m_running' = FALSE
    /\ o_pc' = "destructor notify"
    /\ UNCHANGED <<taskQueue, w_pc, w_task, puts, ran, finished, caught>>

\* QueueThread::~QueueThread, line 17
DestructorNotify ==
    /\ o_pc = "destructor notify"
    /\ w_pc' = Notified
    /\ o_pc' = "join"
    /\ UNCHANGED <<taskQueue, m_running, w_task, puts, ran, finished, caught>>

\* QueueThread::~QueueThread, lines 19-22: join returns once thread() has;
\* ThreadBase::~ThreadBase then finds nothing to join.
DestructorJoin ==
    /\ o_pc = "join"
    /\ w_pc = "done"
    /\ o_pc' = "returned"
    /\ UNCHANGED <<taskQueue, m_running, w_pc, w_task, puts, ran, finished, caught>>

\* void QueueThread::thread(), line 40: while (m_running)
ThreadWhile ==
    /\ w_pc = "while"
    /\ w_pc' = IF m_running THEN "lock" ELSE "done"
    /\ UNCHANGED <<taskQueue, m_running, w_task, o_pc, puts, ran, finished, caught>>

\* thread(), lines 45-53, under the mutex: wait until the object stops or
\* a task is queued; return if it stopped with nothing queued; else take
\* the front task.
ThreadWait ==
    /\ w_pc \in {"lock", "woken"}
    /\ IF m_running /\ taskQueue = <<>>
       THEN /\ w_pc' = "waiting"
            /\ UNCHANGED <<taskQueue, w_task>>
       ELSE IF ~m_running /\ taskQueue = <<>>
       THEN /\ w_pc' = "done"
            /\ UNCHANGED <<taskQueue, w_task>>
       ELSE /\ w_task' = Head(taskQueue)
            /\ taskQueue' = Tail(taskQueue)
            /\ w_pc' = "task"
    /\ UNCHANGED <<m_running, o_pc, puts, ran, finished, caught>>

\* std::condition_variable::wait may wake with no notification.
ThreadSpuriousWake ==
    /\ w_pc = "waiting"
    /\ w_pc' = "woken"
    /\ UNCHANGED <<taskQueue, m_running, w_task, o_pc, puts, ran, finished, caught>>

\* thread(), lines 58-60: the task is called.
ThreadCall ==
    /\ w_pc = "task"
    /\ ran' = Append(ran, w_task.id)
    /\ w_pc' = "running"
    /\ UNCHANGED <<taskQueue, m_running, w_task, o_pc, puts, finished, caught>>

\* thread(), lines 59-67: where the worker goes when the call ends, by a
\* return or by an exception that a catch clause takes.
AfterTaskUncaught(task) == IF task.throws THEN "done" ELSE "while"
AfterTask(task) == "while"

\* thread(), lines 60-66: the task ends.
ThreadReturn ==
    /\ w_pc = "running"
    /\ finished' = finished \cup {w_task.id}
    /\ caught' = IF w_task.throws /\ AfterTask(w_task) = "while"
                 THEN caught \cup {w_task.id} ELSE caught
    /\ w_pc' = AfterTask(w_task)
    /\ w_task' = NoTask
    /\ UNCHANGED <<taskQueue, m_running, o_pc, puts, ran>>

QueueFrame ==
    UNCHANGED <<ringVars, concVars, engineState, callerVars, threadVars, probeVars,
                wrapperVars, delayVars, biquadVars, utilVars>>

Q_Put ==
    \E kind \in TaskKinds :
        /\ Len(puts) < MaxTasks
        /\ QueuePut(kind)
        /\ QueueFrame

Q_PutNotify == QueuePutNotify /\ QueueFrame
Q_DestructorStop == DestructorStop /\ QueueFrame
Q_DestructorNotify == DestructorNotify /\ QueueFrame
Q_DestructorJoin == DestructorJoin /\ QueueFrame
W_While == ThreadWhile /\ QueueFrame
W_Wait == ThreadWait /\ QueueFrame
W_SpuriousWake == ThreadSpuriousWake /\ QueueFrame
W_Call == ThreadCall /\ QueueFrame
W_Return == ThreadReturn /\ QueueFrame

\* What the owner does once it is inside put or the destructor.
OwnerGoesOn == Q_PutNotify \/ Q_DestructorNotify \/ Q_DestructorJoin

\* What the worker does whenever it is not blocked in wait.
WorkerGoesOn == W_While \/ W_Wait \/ W_Call \/ W_Return

NextQueue ==
    \/ Q_Put
    \/ Q_DestructorStop
    \/ OwnerGoesOn
    \/ WorkerGoesOn
    \/ W_SpuriousWake

\* Both threads are scheduled: a thread that can take a step takes one.
SpecQueue ==
    /\ Init
    /\ [][NextQueue]_vars
    /\ WF_vars(OwnerGoesOn)
    /\ WF_vars(WorkerGoesOn)

\* ---- C29 ---------------------------------------------------------------
\* C29: every non-empty task passed to put before the destructor starts
\* has been executed exactly once, and has finished, when the destructor
\* returns, however many tasks were queued when the destruction began.
C29_PutTasksRunBeforeDestroyed ==
    o_pc = "returned" =>
        \A i \in 1 .. Len(puts) :
            puts[i].kind # "null" =>
                /\ TimesRun(puts[i].id) = 1
                /\ puts[i].id \in finished

\* ---- C30 ---------------------------------------------------------------
\* The task of this id was put, not empty, after a task that throws.
PutAfterThrow(id) ==
    \E i, j \in 1 .. Len(puts) :
        /\ i < j
        /\ puts[i].kind = "throws"
        /\ puts[j].id = id
        /\ puts[j].kind # "null"

\* An empty task is in no queue and in no call.
NullNeverRuns ==
    \A i \in 1 .. Len(puts) :
        puts[i].kind = "null" =>
            /\ puts[i].id \notin QueueIds(taskQueue)
            /\ puts[i].id # w_task.id
            /\ TimesRun(puts[i].id) = 0

\* The worker ends only because the object was told to stop, and every
\* exception thrown so far was taken by a catch clause.
ThrowContained ==
    /\ w_pc = "done" => ~m_running
    /\ \A i \in 1 .. Len(puts) :
           (puts[i].kind = "throws" /\ puts[i].id \in finished) => puts[i].id \in caught

Live(w) == workers[w] \in {"created", "while", "body"}

\* The worker the next std::thread will be.
NextWorker == Cardinality({w \in WorkerIds : workers[w] # "absent"}) + 1

\* ThreadBase::start, line 18: if (!m_running && !m_thread.joinable())
StartGuardAlways == TRUE
StartGuard == ~m_running /\ m_thread = 0

\* void ThreadBase::start(), lines 14-20, under m_mutex: the test and the
\* flag.
StartSet ==
    /\ s_pc = "idle"
    /\ IF StartGuard
       THEN /\ NextWorker \in WorkerIds
            /\ m_running' = TRUE
            /\ s_pc' = "create"
            /\ UNCHANGED s_last
       ELSE /\ s_last' = [op |-> "start", launched |-> FALSE, threw |-> FALSE]
            /\ UNCHANGED <<m_running, s_pc>>
    /\ UNCHANGED <<m_thread, workers>>

\* start(), lines 21-26, still under m_mutex: the std::thread is
\* constructed, or its constructor throws and the flag is taken back.
StartCreate(created) ==
    /\ s_pc = "create"
    /\ s_pc' = "idle"
    /\ IF created
       THEN /\ m_thread' = NextWorker
            /\ workers' = [workers EXCEPT ![NextWorker] = "created"]
            /\ s_last' = [op |-> "start", launched |-> TRUE, threw |-> FALSE]
            /\ UNCHANGED m_running
       ELSE /\ m_running' = FALSE
            /\ s_last' = [op |-> "start", launched |-> FALSE, threw |-> TRUE]
            /\ UNCHANGED <<m_thread, workers>>

\* The new thread begins to execute thread().
WorkerEnter(w) ==
    /\ workers[w] = "created"
    /\ workers' = [workers EXCEPT ![w] = "while"]
    /\ UNCHANGED <<m_running, m_thread, s_pc, s_last>>

\* void ThreadBase::stop(), lines 32-35
StopClear ==
    /\ s_pc = "idle"
    /\ m_running' = FALSE
    /\ s_pc' = "joinable"
    /\ UNCHANGED <<m_thread, workers, s_last>>

\* stop(), line 37: if (m_thread.joinable())
StopJoinable ==
    /\ s_pc = "joinable"
    /\ IF m_thread # 0
       THEN s_pc' = "join" /\ UNCHANGED s_last
       ELSE /\ s_pc' = "idle"
            /\ s_last' = [op |-> "stop", launched |-> FALSE, threw |-> FALSE]
    /\ UNCHANGED <<m_running, m_thread, workers>>

\* stop(), line 39: join returns once the worker has left thread().
StopJoin ==
    /\ s_pc = "join"
    /\ workers[m_thread] = "finished"
    /\ m_thread' = 0
    /\ s_pc' = "idle"
    /\ s_last' = [op |-> "stop", launched |-> FALSE, threw |-> FALSE]
    /\ UNCHANGED <<m_running, workers>>

\* thread(): while (m_running)
WorkerWhile(w) ==
    /\ workers[w] = "while"
    /\ workers' = [workers EXCEPT ![w] = IF m_running THEN "body" ELSE "finished"]
    /\ UNCHANGED <<m_running, m_thread, s_pc, s_last>>

\* thread(): one iteration of the loop body
WorkerBody(w) ==
    /\ workers[w] = "body"
    /\ workers' = [workers EXCEPT ![w] = "while"]
    /\ UNCHANGED <<m_running, m_thread, s_pc, s_last>>

InitBase ==
    /\ EngineInit /\ RingInit(1) /\ RingCallerInit /\ ConcInit /\ WrapperInit
    /\ DelayInit /\ BiquadInit /\ UtilInit
    /\ taskQueue = <<>>
    /\ m_running = FALSE
    /\ QueueRestInit

BaseFrame ==
    UNCHANGED <<ringVars, concVars, engineState, callerVars, threadVars, probeVars,
                wrapperVars, delayVars, biquadVars, subjectVars, serviceVars,
                taskQueue, w_pc, w_task, o_pc, puts, ran, finished, caught>>

T_StartSet == StartSet /\ BaseFrame
T_StartCreate == \E created \in BOOLEAN : StartCreate(created) /\ BaseFrame
T_WorkerEnter == \E w \in WorkerIds : WorkerEnter(w) /\ BaseFrame
T_StopClear == StopClear /\ BaseFrame
T_StopJoinable == StopJoinable /\ BaseFrame
T_StopJoin == StopJoin /\ BaseFrame
T_WorkerWhile == \E w \in WorkerIds : WorkerWhile(w) /\ BaseFrame
T_WorkerBody == \E w \in WorkerIds : WorkerBody(w) /\ BaseFrame

\* What the caller does once it is inside start() or stop().
CallGoesOn == T_StartCreate \/ T_StopJoinable \/ T_StopJoin

\* What a worker does: it is never blocked.
WorkerRuns == T_WorkerEnter \/ T_WorkerWhile \/ T_WorkerBody

NextBase ==
    \/ T_StartSet
    \/ T_StopClear
    \/ CallGoesOn
    \/ WorkerRuns

\* Both the caller inside start() or stop() and the worker are scheduled.
SpecBase ==
    /\ InitBase
    /\ [][NextBase]_vars
    /\ WF_vars(CallGoesOn)
    /\ WF_vars(WorkerRuns)

\* ---- C31 ---------------------------------------------------------------
AtMostOneWorker == Cardinality({w \in WorkerIds : Live(w)}) <= 1

\* stop() has returned and no start() has returned since.
Stopped == s_pc = "idle" /\ s_last.op = "stop"

StoppedMeansFinished == Stopped => \A w \in WorkerIds : ~Live(w)

\* While a worker exists no step creates a worker.
NoSecondWorker ==
    (\E w \in WorkerIds : Live(w)) =>
        \A w \in WorkerIds : workers[w] = "absent" => workers'[w] = "absent"

\* A start() that returns normally after a stop() has launched a worker.
LaterStartLaunches ==
    (Stopped /\ s_last'.op = "start" /\ ~s_last'.threw) =>
        /\ s_last'.launched
        /\ \E w \in WorkerIds : workers[w] = "absent" /\ Live(w)'

\* C31: for a ThreadBase whose thread() loop exits when m_running is false
\* and whose start() and stop() are called from one thread: at any time at
\* most one worker exists (start() while a worker exists creates no second
\* one), stop() terminates, after stop() returns the worker has finished so
\* thread() performs no further iteration, and a later start() launches a
\* new worker.
C31_OneWorkerStopJoins ==
    /\ [](AtMostOneWorker /\ StoppedMeansFinished)
    /\ [][NoSecondWorker /\ LaterStartLaunches]_vars
    /\ (s_pc # "idle") ~> (s_pc = "idle")

\* A second worker runs after the first was stopped and joined, and a
\* start() was called while it ran.
C31_Witness ==
    /\ workers[1] = "finished"
    /\ workers[2] = "body"
    /\ m_thread = 2
    /\ s_last = [op |-> "start", launched |-> FALSE, threw |-> FALSE]

\* ======================================================================
\* A Subject, the thread that attaches and detaches observers, and the
\* threads that call notify while the set of observers is fixed.
\* ======================================================================
ObserverIds == 1 .. 2                \* the observers; 0 is nullptr
ParamsChoices == {0, 42}             \* void* params: nullptr, &testValue

Attached(o) == \E i \in 1 .. Len(observers) : observers[i] = o

\* void Subject::attach(IObserver* observer), lines 4-15
AttachDuplicating(observer) ==
    observers' = IF observer = 0 THEN observers ELSE Append(observers, observer)
Attach(observer) ==
    observers' = IF observer = 0 \/ Attached(observer) THEN observers
                 ELSE Append(observers, observer)

\* std::remove over a vector, line 22: the elements that differ, in order.
RECURSIVE RemoveAll(_, _)
RemoveAll(v, observer) ==
    IF v = <<>> THEN <<>>
    ELSE IF Head(v) = observer THEN RemoveAll(Tail(v), observer)
    ELSE <<Head(v)>> \o RemoveAll(Tail(v), observer)

\* void Subject::detach(IObserver* observer), lines 17-23
Detach(observer) ==
    observers' = IF observer = 0 THEN observers ELSE RemoveAll(observers, observer)

\* void Subject::notify(void* params), line 27: the loop begins.
NotifyBegin(t, params) ==
    /\ notifying[t].i = 0
    /\ notifying' = [notifying EXCEPT ![t] = [i |-> 1, params |-> params, got |-> <<>>]]

\* notify, lines 27-32: one turn of the loop, update(params) on an
\* observer that is not null.
NotifyStep(t) ==
    LET n == notifying[t]
    IN  /\ n.i \in 1 .. Len(observers)
        /\ notifying' = [notifying EXCEPT ![t] =
               [n EXCEPT !.i = n.i + 1,
                         !.got = IF observers[n.i] # 0
                                 THEN Append(n.got, <<observers[n.i], n.params>>)
                                 ELSE n.got]]

\* notify, line 33: the loop is over and the call returns.
NotifyEnd(t) ==
    LET n == notifying[t]
    IN  /\ n.i = Len(observers) + 1
        /\ notifying' = [notifying EXCEPT ![t] = [n EXCEPT !.i = 0]]

\* The observers that are attached and not detached since, in the order of
\* their attaching, after attach(o) and after detach(o).
AttachedAfterAttach(o) ==
    IF o = 0 \/ (\E i \in 1 .. Len(observed.attached) : observed.attached[i] = o)
    THEN observed.attached
    ELSE observed.attached \o <<o>>

AttachedAfterDetach(o) == SelectSeq(observed.attached, LAMBDA x : x # o)

SubjectFrame ==
    UNCHANGED <<ringVars, concVars, engineState, callerVars, threadVars, probeVars,
                wrapperVars, delayVars, biquadVars, queueVars, baseVars, serviceVars>>

Quiescent == \A t \in Notifiers : notifying[t].i = 0

O_Attach ==
    \E o \in {0} \cup ObserverIds :
        /\ Quiescent
        /\ Attach(o)
        /\ observed' = [op |-> "attach", observer |-> o, before |-> observers,
                        attached |-> AttachedAfterAttach(o)]
        /\ UNCHANGED notifying
        /\ SubjectFrame

O_Detach ==
    \E o \in {0} \cup ObserverIds :
        /\ Quiescent
        /\ Detach(o)
        /\ observed' = [op |-> "detach", observer |-> o, before |-> observers,
                        attached |-> AttachedAfterDetach(o)]
        /\ UNCHANGED notifying
        /\ SubjectFrame

O_NotifyBegin ==
    \E t \in Notifiers, params \in ParamsChoices :
        /\ NotifyBegin(t, params)
        /\ UNCHANGED <<observers, observed>>
        /\ SubjectFrame

O_NotifyStep ==
    \E t \in Notifiers :
        /\ NotifyStep(t)
        /\ UNCHANGED <<observers, observed>>
        /\ SubjectFrame

O_NotifyEnd ==
    \E t \in Notifiers :
        /\ NotifyEnd(t)
        /\ UNCHANGED <<observers, observed>>
        /\ SubjectFrame

NextSubject ==
    \/ O_Attach
    \/ O_Detach
    \/ O_NotifyBegin
    \/ O_NotifyStep
    \/ O_NotifyEnd

SpecSubject == Init /\ [][NextSubject]_vars

\* ---- C32 ---------------------------------------------------------------
\* What one notify(params) owes: update(params) once on each observer that
\* is attached, in attach order.
Owed(params) == [i \in 1 .. Len(observed.attached) |-> <<observed.attached[i], params>>]

\* A notify call that returns has delivered exactly what it owed.
NotifyDelivers ==
    \A t \in Notifiers :
        (notifying[t].i # 0 /\ notifying'[t].i = 0) =>
            notifying'[t].got = Owed(notifying[t].params)

\* attach(nullptr), attach of an attached observer and detach(nullptr)
\* leave the list as it was.
NothingChanges ==
    (\/ observed.op \in {"attach", "detach"} /\ observed.observer = 0
     \/ /\ observed.op = "attach"
        /\ \E i \in 1 .. Len(observed.before) : observed.before[i] = observed.observer)
    => observers = observed.before

\* C32: after any sequence of attach and detach, each notify(p) calls
\* update(p) exactly once on every observer that is currently attached, in
\* attach order, and on no other observer; attach(nullptr), attach of an
\* attached observer and detach(nullptr) change nothing; with a fixed
\* observer set, notify calls issued concurrently from several threads each
\* deliver exactly one update per observer.
C32_NotifyOncePerAttached ==
    /\ [](NothingChanges /\ observers = observed.attached)
    /\ [][NotifyDelivers]_vars

\* Two threads were inside notify at once over two observers attached in
\* the order 2, 1 after a detach and a repeated attach; one has returned
\* and the other is in its loop.
C32_Witness ==
    /\ observers = <<2, 1>>
    /\ observed.op = "attach"
    /\ observed.observer = 2
    /\ observed.before = <<2, 1>>
    /\ notifying[1].i = 0
    /\ notifying[1].got = <<<<2, 42>>, <<1, 42>>>>
    /\ notifying[2].i = 2
    /\ notifying[2].got = <<<<2, 0>>>>

\* ======================================================================
\* AudioService (AudioService.ts) from its construction on: initialize,
\* shutdown and every public operation, each a whole call.  The native
\* instance is the wrapper and the engine of the variables above.
\* ======================================================================
MaxServiceCalls == 3                 \* calls made on one AudioService

\* private ensureInitialized(), lines 257-261: whether it lets the call go on.
EnsureInitializedAlways == TRUE
EnsureInitialized == isInitialized /\ audioSystem # 0

\* new nativeModule.AudioSystem(sampleRate), line 38: a wrapper with an
\* engine as constructed and its tap attached (AudioSystemWrapper.h:119-143).
NativeConstructed ==
    /\ m_activeNotes' = <<>>
    /\ m_noteOn' = FALSE
    /\ m_frequency' = 0
    /\ m_noteDetuneCents' = 0
    /\ m_primaryPhase' = 0
    /\ m_secondaryPhase' = 0
    /\ m_lfoPhase' = 0
    /\ m_primaryWaveform' = "square"
    /\ m_secondaryWaveform' = "square"
    /\ m_lfoRateHz' = (35 * FreqPerHz) \div 100
    /\ m_lfoAmountCents' = 4
    /\ m_noteJitterAmountCents' = 3
    /\ m_secondaryEnabled' = FALSE
    /\ m_secondaryMix' = 0
    /\ m_secondaryDetuneCents' = 0
    /\ m_secondaryOctaveOffset' = 0
    /\ m_pitchBendCents' = [num |-> 0, den |-> 1]
    /\ m_effects' = <<>>
    /\ heap' = [h \in Objects |-> IF h \in Handles THEN NewEffect(h) ELSE FreeObject]
    /\ m_lowPassActive' = FALSE
    /\ m_lastLowPassCutoff' = 0
    /\ m_envelope' = ADSREnvelope(TenthsToSamples(1), TenthsToSamples(2),
                                  (7 * LevelMax) \div 10, TenthsToSamples(3))
    /\ m_waveformTap' = TRUE
    /\ m_activeFrequencies' = <<>>
    /\ m_currentFrequency' = 0

NativeUnchanged == UNCHANGED <<engineState, m_activeFrequencies, m_currentFrequency>>

\* The record of a call: whether it threw, the native methods it invoked
\* in order, and what it returned.
ServiceCalled(op, threw, native, result) ==
    serviceLast' = [op |-> op, threw |-> threw, native |-> native, result |-> result,
                    before |-> <<isInitialized, audioSystem>>]

\* ensureInitialized threw: the call ends there.
Refused(op) ==
    /\ ServiceCalled(op, TRUE, <<>>, <<>>)
    /\ NativeUnchanged
    /\ UNCHANGED <<activeFrequencies, isInitialized, audioSystem, instances>>

\* public initialize(), lines 26-47.  outcome: "ok", or where it failed:
\* "load" (require or the constructor threw) or "start" (start() threw,
\* after audioSystem was assigned).
Initialize(outcome) ==
    IF isInitialized
    THEN /\ ServiceCalled("initialize", FALSE, <<>>, <<>>)
         /\ NativeUnchanged
         /\ UNCHANGED <<activeFrequencies, isInitialized, audioSystem, instances>>
    ELSE IF outcome = "load"
    THEN /\ ServiceCalled("initialize", TRUE, <<>>, <<>>)
         /\ NativeUnchanged
         /\ UNCHANGED <<activeFrequencies, isInitialized, audioSystem, instances>>
    ELSE /\ NativeConstructed
         /\ instances' = instances + 1
         /\ audioSystem' = instances + 1
         /\ isInitialized' = (outcome = "ok")
         /\ activeFrequencies' = IF outcome = "ok" THEN {} ELSE activeFrequencies
         /\ ServiceCalled("initialize", outcome # "ok", <<"AudioSystem", "start">>, <<>>)

\* public shutdown(), lines 52-58; native stop() is WrapperStop.
Shutdown ==
    IF audioSystem # 0
    THEN /\ WrapperStop
         /\ activeFrequencies' = {}
         /\ isInitialized' = FALSE
         /\ ServiceCalled("shutdown", FALSE, <<"stop">>, <<>>)
         /\ UNCHANGED <<audioSystem, instances>>
    ELSE /\ ServiceCalled("shutdown", FALSE, <<>>, <<>>)
         /\ NativeUnchanged
         /\ UNCHANGED <<activeFrequencies, isInitialized, audioSystem, instances>>

\* public get initialized(), lines 168-170
Initialized ==
    /\ ServiceCalled("initialized", FALSE, <<>>, <<isInitialized>>)
    /\ NativeUnchanged
    /\ UNCHANGED <<activeFrequencies, isInitialized, audioSystem, instances>>

\* A call that went past ensureInitialized and kept the service's fields.
Served(op, threw, native, result) ==
    /\ ServiceCalled(op, threw, native, result)
    /\ UNCHANGED <<isInitialized, audioSystem, instances>>

\* playNote, lines 63-69
ServicePlay(frequency, detune, lfoPhase) ==
    IF EnsureInitialized
    THEN PlayNote(frequency, detune, lfoPhase) /\ Served("playNote", FALSE, <<"triggerNote">>, <<>>)
    ELSE Refused("playNote")

\* stopNote, lines 74-83
ServiceStop(given, frequency) ==
    IF EnsureInitialized
    THEN StopNote(given, frequency) /\ Served("stopNote", FALSE, <<"triggerNoteOff">>, <<>>)
    ELSE Refused("stopNote")

\* setWaveform, lines 88-91, and AudioSystemWrapper::SetWaveform
\* (AudioSystemWrapper.h:325-364), which throws on an unknown name.
ServiceSetWaveform(waveform) ==
    IF EnsureInitialized
    THEN /\ IF waveform \in {"sine", "square", "saw", "triangle"}
            THEN SetWaveform(waveform) ELSE UNCHANGED engineState
         /\ UNCHANGED <<m_activeFrequencies, m_currentFrequency, activeFrequencies>>
         /\ Served("setWaveform", waveform \notin {"sine", "square", "saw", "triangle"},
                   <<"setWaveform">>, <<>>)
    ELSE Refused("setWaveform")

\* updateEnvelope, lines 96-104
ServiceUpdateEnvelope(params) ==
    IF EnsureInitialized
    THEN /\ UpdateADSRParameters(params[1], params[2], params[3], params[4])
         /\ UNCHANGED <<m_activeFrequencies, m_currentFrequency, activeFrequencies>>
         /\ Served("updateEnvelope", FALSE, <<"updateADSRParameters">>, <<>>)
    ELSE Refused("updateEnvelope")

\* resetEffects, lines 109-112
ServiceResetEffects ==
    IF EnsureInitialized
    THEN /\ ResetEffects
         /\ UNCHANGED <<m_activeFrequencies, m_currentFrequency, activeFrequencies>>
         /\ Served("resetEffects", FALSE, <<"resetEffects">>, <<>>)
    ELSE Refused("resetEffects")

\* applyEffects, lines 118-163: clearEffects, then a new DelayEffect and a
\* new LowPassEffect as enabled, the latter followed by setLowPassCutoff.
\* The new objects take the handles 2 and 1, whose old objects are gone
\* with the chain.
ServiceApplyEffects(settings) ==
    IF EnsureInitialized
    THEN /\ m_effects' = (IF settings.delay THEN <<2>> ELSE <<>>)
                         \o (IF settings.lowPass THEN <<1>> ELSE <<>>)
         /\ heap' = [h \in Objects |->
                        IF h = 2 /\ settings.delay
                        THEN [NewEffect(2) EXCEPT
                                 !.m_delayTime = DelayClampTime(settings.time),
                                 !.m_feedback = ClampValue(settings.feedback, 0, kMaxFeedback),
                                 !.m_mix = ClampValue(settings.mix, 0, MixOne)]
                        ELSE IF h = 1 /\ settings.lowPass
                        THEN LowPassSetCutoff(NewEffect(1), settings.cutoff)
                        ELSE HeapAfterReset[h]]
         /\ m_lowPassActive' = settings.lowPass
         /\ m_lastLowPassCutoff' = IF settings.lowPass THEN settings.cutoff ELSE 0
         /\ UNCHANGED <<noteVars, oscVars, paramVars, m_envelope, m_waveformTap>>
         /\ UNCHANGED <<m_activeFrequencies, m_currentFrequency, activeFrequencies>>
         /\ Served("applyEffects", FALSE,
                   <<"clearEffects">>
                   \o (IF settings.delay THEN <<"addDelayEffect">> ELSE <<>>)
                   \o (IF settings.lowPass THEN <<"addLowPassEffect", "setLowPassCutoff">>
                       ELSE <<>>),
                   <<>>)
    ELSE Refused("applyEffects")

\* updateDrift, lines 175-178
ServiceUpdateDrift(rateHz, amountCents, jitterCents) ==
    IF EnsureInitialized
    THEN /\ SetDriftParameters(rateHz, amountCents, jitterCents)
         /\ UNCHANGED <<m_activeFrequencies, m_currentFrequency, activeFrequencies>>
         /\ Served("updateDrift", FALSE, <<"setDriftParameters">>, <<>>)
    ELSE Refused("updateDrift")

\* setLowPassCutoff, lines 183-186
ServiceSetLowPassCutoff(cutoff) ==
    IF EnsureInitialized
    THEN /\ SetLowPassCutoff(cutoff)
         /\ UNCHANGED <<m_activeFrequencies, m_currentFrequency, activeFrequencies>>
         /\ Served("setLowPassCutoff", FALSE, <<"setLowPassCutoff">>, <<>>)
    ELSE Refused("setLowPassCutoff")

\* getLowPassCutoff, lines 191-194
ServiceGetLowPassCutoff ==
    IF EnsureInitialized
    THEN /\ NativeUnchanged
         /\ UNCHANGED activeFrequencies
         /\ Served("getLowPassCutoff", FALSE, <<"getLowPassCutoff">>, <<GetLowPassCutoff>>)
    ELSE Refused("getLowPassCutoff")

\* getMidiStatus, lines 199-202; no MIDI device is connected here.
ServiceGetMidiStatus ==
    IF EnsureInitialized
    THEN /\ NativeUnchanged
         /\ UNCHANGED activeFrequencies
         /\ Served("getMidiStatus", FALSE, <<"getMidiStatus">>,
                   <<[connected |-> FALSE, deviceName |-> ""]>>)
    ELSE Refused("getMidiStatus")

\* configureSecondaryOscillator, lines 223-232: the settings are clamped
\* before the native call.
ServiceConfigureSecondaryOscillator(enabled, mix, detuneCents, octaveOffset) ==
    IF EnsureInitialized
    THEN /\ ConfigureSecondaryOscillator(enabled, Max(0, Min(MixOne, mix)),
                                         Max(0, detuneCents),
                                         Max(0 - 2, Min(2, octaveOffset)))
         /\ UNCHANGED <<m_activeFrequencies, m_currentFrequency, activeFrequencies>>
         /\ Served("configureSecondaryOscillator", FALSE,
                   <<"configureSecondaryOscillator">>, <<>>)
    ELSE Refused("configureSecondaryOscillator")

\* setPitchBend, lines 238-247: a value that is not finite returns early.
ServiceSetPitchBend(rawValue) ==
    IF EnsureInitialized
    THEN /\ IF IsNaN(rawValue) THEN UNCHANGED engineState
            ELSE SetPitchBend(Max(0 - 8192, Min(8191, rawValue)))
         /\ UNCHANGED <<m_activeFrequencies, m_currentFrequency, activeFrequencies>>
         /\ Served("setPitchBend", FALSE,
                   IF IsNaN(rawValue) THEN <<>> ELSE <<"setPitchBend">>, <<>>)
    ELSE Refused("setPitchBend")

\* getActiveFrequencies, lines 252-255
ServiceGetActiveFrequencies ==
    IF EnsureInitialized
    THEN /\ NativeUnchanged
         /\ UNCHANGED activeFrequencies
         /\ Served("getActiveFrequencies", FALSE, <<>>, <<activeFrequencies>>)
    ELSE Refused("getActiveFrequencies")

\* getWaveformData, lines 207-218: empty without a native call when the
\* service is not initialized or the count is not a positive number; else
\* getRecentWaveform of the count clamped to the sample rate, which
\* returns two floats per frame that the ring holds.
ServiceGetWaveformData(frameCount) ==
    LET asked == isInitialized /\ audioSystem # 0 /\ ~IsNaN(frameCount) /\ frameCount > 0
        clampedFrames == Min(frameCount, DefaultEffectSampleRateHz)
    IN  /\ NativeUnchanged
        /\ UNCHANGED activeFrequencies
        /\ Served("getWaveformData", FALSE,
                  IF asked THEN <<"getRecentWaveform">> ELSE <<>>,
                  IF asked THEN [j \in 1 .. (2 * WaveformFrames(clampedFrames)) |-> 0]
                  ELSE <<>>)

GuardedOps ==
    {"playNote", "stopNote", "setWaveform", "updateEnvelope", "resetEffects",
     "applyEffects", "updateDrift", "setLowPassCutoff", "getLowPassCutoff",
     "getMidiStatus", "configureSecondaryOscillator", "setPitchBend",
     "getActiveFrequencies"}

EffectSettings ==
    {[delay |-> d, lowPass |-> l, time |-> DefaultDelayMs, feedback |-> 120,
      mix |-> MixOne \div 2, cutoff |-> 30] : d, l \in BOOLEAN}

\* One more call on the service; nothing else moves.
ServiceCounted ==
    /\ calls < MaxServiceCalls
    /\ calls' = calls + 1
    /\ UNCHANGED <<last, out, ringVars, concVars, threadVars, probeVars,
                   delayVars, biquadVars, queueVars, baseVars, subjectVars>>

S_Initialize == \E outcome \in {"ok", "load", "start"} : Initialize(outcome) /\ ServiceCounted
S_Shutdown == Shutdown /\ ServiceCounted
S_Initialized == Initialized /\ ServiceCounted
S_PlayNote ==
    \E f \in {NoteA, NaN}, detune \in DetuneChoices(m_noteJitterAmountCents),
       lfoPhase \in LfoPhaseChoices :
        ServicePlay(f, detune, lfoPhase) /\ ServiceCounted
S_StopNote == \E given \in BOOLEAN : ServiceStop(given, NoteA) /\ ServiceCounted
S_SetWaveform == \E w \in {"sine", "noise"} : ServiceSetWaveform(w) /\ ServiceCounted
S_UpdateEnvelope == ServiceUpdateEnvelope(<<1, 1, LevelMax \div 2, 2>>) /\ ServiceCounted
S_ResetEffects == ServiceResetEffects /\ ServiceCounted
S_ApplyEffects == \E settings \in EffectSettings : ServiceApplyEffects(settings) /\ ServiceCounted
S_UpdateDrift == ServiceUpdateDrift(NoteA, 4, 1) /\ ServiceCounted
S_SetLowPassCutoff == ServiceSetLowPassCutoff(10) /\ ServiceCounted
S_GetLowPassCutoff == ServiceGetLowPassCutoff /\ ServiceCounted
S_GetMidiStatus == ServiceGetMidiStatus /\ ServiceCounted
S_ConfigureSecondaryOscillator ==
    ServiceConfigureSecondaryOscillator(TRUE, MixOne + 1, 0 - 7, 3) /\ ServiceCounted
S_SetPitchBend == \E raw \in {9000, NaN} : ServiceSetPitchBend(raw) /\ ServiceCounted
S_GetActiveFrequencies == ServiceGetActiveFrequencies /\ ServiceCounted
S_GetWaveformData == \E n \in {0, 2048, NaN} : ServiceGetWaveformData(n) /\ ServiceCounted

NextService ==
    \/ S_Initialize
    \/ S_Shutdown
    \/ S_Initialized
    \/ S_PlayNote
    \/ S_StopNote
    \/ S_SetWaveform
    \/ S_UpdateEnvelope
    \/ S_ResetEffects
    \/ S_ApplyEffects
    \/ S_UpdateDrift
    \/ S_SetLowPassCutoff
    \/ S_GetLowPassCutoff
    \/ S_GetMidiStatus
    \/ S_ConfigureSecondaryOscillator
    \/ S_SetPitchBend
    \/ S_GetActiveFrequencies
    \/ S_GetWaveformData

SpecService == Init /\ [][NextService]_vars

\* The call just made found the service not initialized.
FoundNotInitialized == ~(serviceLast.before[1] /\ serviceLast.before[2] # 0)

\* A guarded operation on a service that is not initialized throws and
\* invokes nothing native; getWaveformData then returns an empty array
\* without a native call.
RefusedWhileNotInitialized ==
    /\ serviceLast.op \in GuardedOps /\ FoundNotInitialized
       => serviceLast.threw /\ serviceLast.native = <<>>
    /\ serviceLast.op = "getWaveformData" /\ FoundNotInitialized
       => ~serviceLast.threw /\ serviceLast.native = <<>> /\ serviceLast.result = <<>>

\* A step of such a call changes neither the native instance nor the
\* service's own fields.
RefusedChangesNothing ==
    ~EnsureInitialized /\ serviceLast'.op \in GuardedOps \cup {"getWaveformData"}
    => UNCHANGED <<engineState, m_activeFrequencies, m_currentFrequency,
                   activeFrequencies, isInitialized, audioSystem, instances>>

\* initialize() on an initialized service constructs nothing.
InitializeOnce ==
    isInitialized /\ serviceLast'.op = "initialize"
    => instances' = instances /\ audioSystem' = audioSystem
       /\ serviceLast'.native = <<>>

\* shutdown() calls the native stop() whenever an instance is held,
\* initialized or not.
ShutdownStopsHeld ==
    serviceLast.op = "shutdown"
    => serviceLast.native = IF serviceLast.before[2] # 0 THEN <<"stop">> ELSE <<>>

\* C33 (as amended): while the service is not initialized, every operation
\* other than initialize, shutdown and the initialized getter invokes nothing
\* native and changes no state: the guarded ones throw, getWaveformData
\* returns an empty array; initialize() on an initialized service creates no
\* second native instance; shutdown() calls the native stop() whenever an
\* instance is held.
C33_GuardedOpsRefused ==
    /\ [](RefusedWhileNotInitialized /\ ShutdownStopsHeld)
    /\ [][RefusedChangesNothing /\ InitializeOnce]_vars

\* A note is refused after initialize() and shutdown().
C33_Witness ==
    /\ serviceLast.op = "playNote"
    /\ serviceLast.threw
    /\ serviceLast.before = <<FALSE, 1>>
    /\ instances = 1

\* C33 (as stated): no call other than initialize() reaches the native
\* audio system while the service is not initialized.
C33_NeverNativeWhileNotInitialized ==
    serviceLast.native # <<>> => serviceLast.before[1] \/ serviceLast.op = "initialize"

\* ======================================================================
\* The waveform tap: getNextSample with the push of line 372, on an engine
\* whose tap is attached and detached by setWaveformTapBuffer.
\* ======================================================================
MaxTapCalls == 5                     \* calls made on the engine with a tap

\* The ring the tap pointer refers to.
tapRing == <<m_capacityFrames, m_buffer, m_writeIndex, m_totalFramesWritten>>

\* void AudioSystem::setWaveformTapBuffer(tap), lines 491-494; tap is
\* whether the pointer is non-null.
SetWaveformTapBuffer(tap) ==
    /\ m_waveformTap' = tap
    /\ UNCHANGED <<noteVars, oscVars, paramVars, fxVars, m_envelope>>

\* getNextSample, lines 371-373: the pair that went through the chain is
\* pushed, first and second.  Both channels of the model's sample are alike.
PushToTapNever(stereoSample) == UNCHANGED tapRing
PushToTap(stereoSample) ==
    IF m_waveformTap THEN Push(stereoSample, stereoSample) ELSE UNCHANGED tapRing

\* getNextSample, lines 315-376, tap included.
NextSample ==
    LET applied == ApplyEffects(m_effects, 1, heap, [amp |-> DrySample, fx |-> <<>>])
    IN  GetNextSample /\ PushToTap(applied.sample)

\* One more call on the engine; the callers of the other specifications
\* stay put.
TapCounted ==
    /\ calls < MaxTapCalls
    /\ calls' = calls + 1
    /\ UNCHANGED <<pushed, dest, copied, ringLast, concVars, threadVars, probeVars, unitVars>>

TapControl(op) == TapCounted /\ last' = Called(op) /\ UNCHANGED <<out, tapRing>>

TapSetBuffer == \E tap \in BOOLEAN : SetWaveformTapBuffer(tap) /\ TapControl("setWaveformTapBuffer")
TapTriggerNote ==
    \E detune \in DetuneChoices(m_noteJitterAmountCents), lfoPhase \in LfoPhaseChoices :
        TriggerNote(NoteA, detune, lfoPhase) /\ TapControl("triggerNote")
TapTriggerNoteOff == TriggerNoteOff(NaN) /\ TapControl("triggerNoteOff")
TapAddEffect == \E h \in Handles : AddEffect(h) /\ TapControl("addEffect")
TapNextSample == NextSample /\ TapCounted /\ last' = Called("getNextSample")

InitTap ==
    /\ EngineInit
    /\ \E c \in 1 .. 2 : RingInit(c)
    /\ RingCallerInit
    /\ ConcInit
    /\ UnitInit

NextTap ==
    \/ TapSetBuffer
    \/ TapTriggerNote
    \/ TapTriggerNoteOff
    \/ TapAddEffect
    \/ TapNextSample

SpecTap == InitTap /\ [][NextTap]_vars

\* A getNextSample with a tap attached pushes the pair it returns, once.
TapGetsReturnedFrame ==
    m_waveformTap /\ last'.op = "getNextSample" /\ calls' # calls
    => /\ m_totalFramesWritten' = m_totalFramesWritten + 1
       /\ m_writeIndex' = NextWriteIndex(m_writeIndex, m_capacityFrames)
       /\ m_buffer'[2 * m_writeIndex] = out'
       /\ m_buffer'[2 * m_writeIndex + 1] = out'
       /\ \A i \in DOMAIN m_buffer :
              i \notin {2 * m_writeIndex, 2 * m_writeIndex + 1} => m_buffer'[i] = m_buffer[i]

\* Without a tap, and in every other call, the ring is not touched.
NoTapNoPush ==
    ~m_waveformTap \/ last'.op # "getNextSample" => UNCHANGED tapRing

\* C34: while a waveform tap is attached, each next_sample() pushes exactly
\* one frame to the tap (total_frames_written grows by one) and the pushed
\* (L, R) is the pair returned, after the whole effect chain; with no tap
\* attached it pushes nothing.
C34_TapGetsEachReturnedFrame == [][TapGetsReturnedFrame /\ NoTapNoPush]_vars

\* A sounding sample shaped by an effect has reached the tap.
C34_Witness ==
    /\ m_waveformTap
    /\ last.op = "getNextSample"
    /\ m_totalFramesWritten >= 1
    /\ out.amp # 0
    /\ out.fx # <<>>
    /\ m_buffer[2 * ((m_writeIndex + m_capacityFrames - 1) % m_capacityFrames)] = out

\* ---- silence: frequency 0 or envelope level 0 -------------------------------
\* The envelope never sounds while the current frequency is 0, neither as
\* the last frame left it nor as the next frame finds it.
NoLevelAtFrequencyZero ==
    m_frequency = 0 => m_envelope.level = 0 /\ EnvelopeAfter.level = 0

\* A getNextSample that finds the frequency 0 or gets the level 0 from the
\* envelope feeds 0 into the chain and moves no phase.
SilentFrame ==
    /\ last'.op = "getNextSample"
    /\ m_frequency = 0 \/ EnvelopeAfter.level = 0
    => /\ DrySample = 0
       /\ out'.amp = 0
       /\ UNCHANGED oscVars

\* C35: in every reachable engine state, if the current frequency is 0 or
\* the envelope level of this frame is 0, next_sample feeds the sample 0 into
\* the effect chain and advances no oscillator phase; no reachable state has
\* an envelope level above 0 while the current frequency is 0.
C35_SilentWithoutNoteOrLevel == []NoLevelAtFrequencyZero /\ [][SilentFrame]_vars

\* A frame at level 0 after a note has sounded and faded, its phases moved
\* by the earlier frames.
C35_Witness ==
    /\ last.op = "getNextSample"
    /\ m_frequency # 0
    /\ m_envelope.level = 0
    /\ m_envelope.state = "Idle"
    /\ out.amp = 0
    /\ m_primaryPhase # 0

\* ---- C36 ---------------------------------------------------------------
\* C36: the coefficients a LowPassEffect holds, after construction with any
\* arguments and after any sequence of setters, reset and process, are the
\* ones updateCoefficients computes from its current clamped cutoff, Q and
\* sample rate: never stale, never the zeros of the initializer list.
C36_CoefficientsAreCurrent ==
    Coefficients(lowPassEffect) = Coefficients(UpdateCoefficients(lowPassEffect))

\* ---- C37 ---------------------------------------------------------------
\* C37: whenever the chain contains a low-pass effect, get_low_pass_cutoff()
\* returns the cutoff in force in a low-pass of the chain, which is the
\* requested value clamped into [20 Hz, 0.45 of Nyquist]; this holds after
\* add_effect, set_low_pass_cutoff and update_effect_parameters.
C37_GetterIsCutoffInForce ==
    LowPassesInChain # {}
    => \E h \in LowPassesInChain :
           /\ heap[h].m_cutoff = GetLowPassCutoff
           /\ GetLowPassCutoff >= kMinCutoff
           /\ GetLowPassCutoff <= MaxCutoff(heap[h].m_sampleRate)

\* ---- C38 ---------------------------------------------------------------
\* Number of pushes that have stored both samples of their frame.
FramesStored ==
    m_totalFramesWritten + (IF p_pc \in {"wroteR", "stored"} THEN 1 ELSE 0)

\* Slot s has been written, left and right, by a push: the pushes fill the
\* slots in order from slot 0.
SlotWritten(s) == FramesStored > s

\* The copy loop is about to read, or is reading, the slot of frame c_i.
CopyReads == c_pc \in {"copyL", "copyR"}

\* C38: with one producer and one consumer interleaved at the granularity
\* of single atomic loads and stores, every slot copy_latest_interleaved
\* reads has been completely written by at least one push: the frame count
\* it derives from total_frames_written never exceeds the number of pushes
\* reflected in the write index it loads afterwards, so it never returns a
\* never-written (initial zero) slot.
C38_CopyReadsWrittenSlots ==
    /\ CopyReads =>
           /\ c_framesToCopy <= c_snap
           /\ c_framesToCopy <= m_capacityFrames
           /\ SlotWritten(FrameIndexAt(c_startFrame, c_i, m_capacityFrames))
    /\ CopyReturnedFrames => \A j \in 1 .. (2 * copied) : dest[j] # 0

\* The copy reads slot 0 of a ring of two slots while the first push into
\* slot 1 has stored its left sample only.
C38_Witness ==
    /\ CopyReads
    /\ m_capacityFrames = 2
    /\ m_totalFramesWritten = 1
    /\ p_pc = "wroteL"
    /\ p_frameIndex = 1
    /\ c_framesToCopy = 1
    /\ FrameIndexAt(c_startFrame, c_i, m_capacityFrames) = 0

\* ---- SpecNative: the native triggerNote and triggerNoteOff only ------------
\* No MIDI event, no Stop and no other call reaches the wrapper.
NextNative ==
    \/ NativeTriggerNote
    \/ NativeTriggerNoteOff

SpecNative == Init /\ [][NextNative]_vars

\* The frequencies of the engine's active notes, in order.
EngineFrequencies == [i \in 1 .. Len(m_activeNotes) |-> m_activeNotes[i].frequency]

\* C39: with no MIDI input, after any sequence of native triggerNote(f) and
\* triggerNoteOff(f?) calls with arbitrary numeric f, the wrapper's list
\* m_activeFrequencies holds the same frequencies in the same order as the
\* engine's active notes.
C39_MirrorMatchesEngine == m_activeFrequencies = EngineFrequencies

\* ---- C40 ---------------------------------------------------------------
\* The ids of the tasks put that are not empty, in the order of the puts.
RECURSIVE TaskIds(_)
TaskIds(ps) ==
    IF ps = <<>> THEN <<>>
    ELSE IF Head(ps).kind = "null" THEN TaskIds(Tail(ps))
    ELSE <<Head(ps).id>> \o TaskIds(Tail(ps))

\* The tasks are called in the order they were put, none twice, none
\* skipped.
RunsInPutOrder ==
    /\ Len(ran) <= Len(TaskIds(puts))
    /\ \A i \in 1 .. Len(ran) : ran[i] = TaskIds(puts)[i]

\* A task is called only when every task called before it has ended.
OneTaskAtATime ==
    \A i \in 1 .. Len(ran) :
        i < Len(ran) \/ w_pc # "running" => ran[i] \in finished

\* put has just queued the task of this id while the worker was blocked in
\* wait and the object was not being destroyed.
PutWhileIdle(id) ==
    /\ o_pc = "notify"
    /\ w_pc = "waiting"
    /\ m_running
    /\ taskQueue # <<>>
    /\ taskQueue[Len(taskQueue)].id = id

\* C40: the QueueThread worker executes the tasks one at a time in the
\* order they were put, and a task put while the worker is idle and the
\* object is not being destroyed is eventually executed (no wake-up is
\* lost), when the worker and the caller inside put are scheduled.
C40_FifoAndNoLostWakeup ==
    /\ [](RunsInPutOrder /\ OneTaskAtATime)
    /\ \A id \in 1 .. MaxTasks : PutWhileIdle(id) ~> (id \in finished)

\* Two tasks have run in put order, the second one put while the worker
\* waited, and the worker waits again.
C40_Witness ==
    /\ m_running
    /\ w_pc = "waiting"
    /\ o_pc = "idle"
    /\ Len(puts) >= 2
    /\ ran = TaskIds(puts)
    /\ Len(ran) = 2
    /\ finished = {ran[1], ran[2]}

====
